---- MODULE Spec2Model ----
(***************************************************************************)
(* Model of spotifyaio.SpotifyClient (src/src/spotifyaio/spotify.py): the  *)
(* request dispatch of _request, the token provider, the session           *)
(* ownership of close(), and the endpoint methods that hand the body to    *)
(* the typed decoder.  Coroutines on one client interleave only at their   *)
(* await points: the refresh callback, session.request and response.text.  *)
(***************************************************************************)
EXTENDS Integers, Sequences, FiniteSets, TLC

\* ------------------------------------------------------------------ bounds
\* Number of coroutines that may run a request on the one client at a time.
NumTasks == 2
\* Number of endpoint invocations over the client's lifetime.
MaxCalls == 2

Tasks == 1..NumTasks

\* ------------------------------------------------------------ plain values
NoneVal == "<None>"
Tokens == {"test", "token"}
TokenValues == Tokens \cup {NoneVal}

\* f"{value}" of a token: None formats as the text None.
Str(t) == IF t = NoneVal THEN "None" ELSE t

\* metadata.version(__package__)
VERSION == "0.0.0"

\* Identifiers given by callers: a bare id and compound resource URIs,
\* as sequences of characters.
Ids == { <<"a">>, <<"s", ":", "t", ":", "a">>, <<"s", ":", "b">> }

\* ------------------------------------------------------------- util.py
\* Index of the last ":" of s, 0 when there is none.
LastColon(s) ==
    LET hits == {i \in 1..Len(s) : s[i] = ":"}
    IN IF hits = {} THEN 0 ELSE CHOOSE i \in hits : \A j \in hits : j <= i

\* get_identifier that returns its argument whole.
get_identifier_whole(s) == s

\* identifier.split(":")[-1]
get_identifier(s) == SubSeq(s, LastColon(s) + 1, Len(s))

\* ------------------------------------------------------- endpoint methods
Ops == {"get_playback", "get_current_playing", "get_devices", "get_album",
        "get_playlist"}

\* The path an endpoint method formats, as the pieces of its f-string.
UriOf(op, id) ==
    CASE op = "get_playback" -> <<"v1/me/player">>
      [] op = "get_current_playing" -> <<"v1/me/player/currently-playing">>
      [] op = "get_devices" -> <<"v1/me/player/devices">>
      [] op = "get_album" -> <<"v1/albums/">> \o get_identifier(id)
      [] op = "get_playlist" -> <<"v1/playlists/">> \o get_identifier(id)

\* The query parameters an endpoint method attaches (None when it has none).
ParamsOf(op) ==
    IF op \in {"get_playback", "get_playlist"}
    THEN {<<"additional_types", "track,episode">>}
    ELSE {}

\* The model class an endpoint method decodes the body into.
TypeOf(op) ==
    CASE op = "get_playback" -> "PlaybackState"
      [] op = "get_current_playing" -> "CurrentPlaying"
      [] op = "get_devices" -> "Devices"
      [] op = "get_album" -> "Album"
      [] op = "get_playlist" -> "Playlist"

\* As ChecksEmpty, with the test in get_playback alone.
ChecksEmptyNarrow(op) == op = "get_playback"

\* Endpoint methods that test the response for the empty result first.
ChecksEmpty(op) == op \in {"get_playback", "get_current_playing"}

\* ------------------------------------------------------------ exceptions.py
\* The exception classes deriving from SpotifyError (itself included).
SpotifyErrors == {"SpotifyError", "SpotifyConnectionError",
                  "SpotifyAuthenticationFailedError", "SpotifyNotFoundError",
                  "SpotifyRateLimitError"}

\* What an invocation gives its caller: nothing yet, a value, or an exception.
Pending == [kind |-> "pending", exc |-> "", msg |-> << >>, value |-> ""]
Return(v) == [kind |-> "return", exc |-> "", msg |-> << >>, value |-> v]
Raise(e, m) == [kind |-> "raise", exc |-> e, msg |-> m, value |-> ""]

\* ------------------------------------------------- response texts, decoding
\* Texts are sequences of fragments; the marker is one fragment.
Marker == "\"status\": 404"
EmptyText == << >>
ValidBody(op) == <<"{", TypeOf(op), "}">>
NotFoundBody == <<"{", "\"error\"", Marker, "}">>
UnauthorizedBody == <<"{", "\"error\"", "\"status\": 401", "}">>
PlainBody == <<"Yes">>

JSON == "application/json"
PLAIN == "plain/text"

\* The answers the transport may deliver to a request of endpoint op.
Served(op) ==
    { [status |-> 200, ctype |-> JSON, body |-> ValidBody(op)],
      [status |-> 200, ctype |-> JSON, body |-> NotFoundBody],
      [status |-> 200, ctype |-> PLAIN, body |-> PlainBody],
      [status |-> 200, ctype |-> PLAIN, body |-> ValidBody(op)],
      [status |-> 204, ctype |-> JSON, body |-> EmptyText],
      [status |-> 204, ctype |-> JSON, body |-> NotFoundBody],
      [status |-> 401, ctype |-> JSON, body |-> UnauthorizedBody],
      [status |-> 404, ctype |-> JSON, body |-> NotFoundBody],
      [status |-> 500, ctype |-> JSON, body |-> NotFoundBody],
      [status |-> 500, ctype |-> JSON, body |-> ValidBody(op)] }

NoAnswer == [status |-> 0, ctype |-> "", body |-> EmptyText]

\* The first coroutine's endpoint and answer range over every case; the
\* coroutines overlapping it run get_playback and are answered with a
\* playback state or with 204.  What a coroutine does to the client (token,
\* session) depends on neither its endpoint nor its answer.
OpsOf(r) == IF r = 1 THEN Ops ELSE {"get_playback"}
ServedTo(r, op) ==
    IF r = 1 THEN Served(op)
    ELSE { [status |-> 200, ctype |-> JSON, body |-> ValidBody(op)],
           [status |-> 204, ctype |-> JSON, body |-> EmptyText] }

\* needle in text
Contains(text, needle) == \E i \in 1..Len(text) : text[i] = needle

\* As HasMarker, with the marker test left out.
HasMarkerNever(text) == FALSE

\* '"status": 404' in text
HasMarker(text) == Contains(text, Marker)

\* As IsNoContent, with the status test left out.
IsNoContentNever(status) == FALSE

\* As IsNoContent, with every error status taken for an empty answer.
IsNoContentOrError(status) == status = 204 \/ status >= 400

\* response.status == 204
IsNoContent(status) == status = 204

\* The text parses as a JSON object.
IsJsonObject(text) ==
    /\ Len(text) >= 2
    /\ text[1] = "{"
    /\ text[Len(text)] = "}"

\* <Model>.from_json(text): the decoded value (named by its class), or the
\* decoder's own exception, which is none of the SpotifyError classes.
from_json(type, text) ==
    IF ~IsJsonObject(text) THEN Raise("JSONDecodeError", text)
    ELSE IF Contains(text, type) THEN Return(type)
    ELSE Raise("MissingField", <<type>>)

\* What the endpoint method makes of the text _request returned.
EndpointResult(op, text) ==
    IF ChecksEmpty(op) /\ text = EmptyText THEN Return("None")
    ELSE from_json(TypeOf(op), text)

\* ------------------------------------------------------------- request parts
HeaderNames == {"User-Agent", "Accept", "Authorization"}

\* As BuildHeaders, with the token left out of Authorization.
BuildHeadersNoToken(tok) ==
    [h \in HeaderNames |->
        CASE h = "User-Agent" -> <<"AioSpotify/", VERSION>>
          [] h = "Accept" -> <<"application/json, text/plain, */*">>
          [] h = "Authorization" -> <<"Bearer ", "None">>]

\* The headers dict of _request for the current token.
BuildHeaders(tok) ==
    [h \in HeaderNames |->
        CASE h = "User-Agent" -> <<"AioSpotify/", VERSION>>
          [] h = "Accept" -> <<"application/json, text/plain, */*">>
          [] h = "Authorization" -> <<"Bearer ", Str(tok)>>]

NoCall == [method |-> "", uri |-> << >>, headers |-> [h \in {} |-> << >>],
           params |-> {}]

\* The arguments of session.request for a GET of endpoint op.
CallOf(op, uri, tok) ==
    [method |-> "GET", uri |-> uri, headers |-> BuildHeaders(tok),
     params |-> ParamsOf(op)]

\* "Timeout occurred while connecting to Spotify"
TimeoutMsg == <<"Timeout occurred while connecting to Spotify">>

\* As OnTimeout, with the except clause left out.
OnTimeoutBare == Raise("TimeoutError", << >>)

\* except asyncio.TimeoutError: raise SpotifyConnectionError(msg)
OnTimeout == Raise("SpotifyConnectionError", TimeoutMsg)

\* f"Resource not found: {uri}"
NotFoundMsg(uri) == <<"Resource not found: ">> \o uri

\* An aiohttp.ClientError of session.request: no except clause names it,
\* so it leaves _request as it is.
OnClientError == Raise("ClientConnectionError", << >>)

\* aiohttp refuses a request on a closed session before any I/O.
OnClosedSession == Raise("RuntimeError", <<"Session is closed">>)

\* What _request and the endpoint method make of the text read from a
\* response that is not a 204.
AfterText(op, uri, text) ==
    IF HasMarker(text) THEN Raise("SpotifyNotFoundError", NotFoundMsg(uri))
    ELSE EndpointResult(op, text)

\* As RefreshedToken, assigning None when no callback is registered.
RefreshedTokenCleared(registered, tok, returned) ==
    IF registered THEN returned ELSE NoneVal

\* As RefreshedToken, with a token once set kept against later refreshes.
RefreshedTokenFirstWins(registered, tok, returned) ==
    IF registered /\ tok = NoneVal THEN returned ELSE tok

\* The value of _token after refresh_token(): the callback's string when a
\* callback is registered, the token as it was otherwise.
RefreshedToken(registered, tok, returned) ==
    IF registered THEN returned ELSE tok

\* As HeaderToken, with the headers built before the refresh.
HeaderTokenStale(before, after) == before

\* The token the Authorization header is built from: _token as read after
\* the await of refresh_token().
HeaderToken(before, after) == after

\* As NeedsSession, with the None test left out.
NeedsSessionAlways(sess) == TRUE

\* if self.session is None
NeedsSession(sess) == sess = 0

\* As ShouldClose, with the ownership flag left out.
ShouldCloseAny(sess, flag) == sess # 0

\* if self.session and self._close_session
ShouldClose(sess, flag) == sess # 0 /\ flag

\* ------------------------------------------------------------------- state
VARIABLES
    session,        \* self.session: 0 for None, else an index into sessions
    sessions,       \* every ClientSession there is: who made it, who closed it
    close_session,  \* self._close_session
    token,          \* self._token
    refresh_token_function,  \* whether a refresh callback is registered
    given,          \* the string last handed over: authenticate's argument
                    \* or a refresh callback's return value
    calls,          \* endpoint invocations so far
    pc,             \* where each coroutine is
    op,             \* the endpoint method it runs
    uri,            \* the uri argument of its _request
    refreshes,      \* how often it has invoked refresh_token()
    requests,       \* how often it has called session.request
    call,           \* the session.request call it is waiting in
    answer,         \* the response the transport delivered to it
    read,           \* whether it has read response.text()
    fault,          \* how its transport call failed, if it did
    result,         \* what the endpoint method gave its caller
    method,         \* an endpoint method called on its own
    argument,       \* the ids it was called with, one entry per call
    sent,           \* the requests its calls handed to _request, in order
    outcome,        \* what the call gave its caller
    identifier,     \* the argument of get_identifier
    extracted,      \* what get_identifier returned, one entry per call
    model,          \* the class whose from_dict decodes
    payload,        \* the parsed JSON value handed to it
    decoded         \* what the decoding gave

vars == <<session, sessions, close_session, token, refresh_token_function,
          given, calls, pc, op, uri, refreshes, requests, call, answer, read,
          fault, result, method, argument, sent, outcome, identifier, extracted,
          model, payload, decoded>>

client_vars == <<session, sessions, close_session, token,
                 refresh_token_function, given>>
task_vars == <<calls, pc, op, uri, refreshes, requests, call, answer, read,
               fault, result>>

call_vars == <<method, argument, sent, outcome>>
ident_vars == <<identifier, extracted>>
decode_vars == <<model, payload, decoded>>

NewSession(owner) ==
    [owner |-> owner, closed_by |-> "nobody", close_called |-> FALSE]

\* SpotifyClient(session=..., refresh_token_function=...): the dataclass
\* defaults, with or without a session and a callback supplied.
ClientInit ==
    /\ \E supplied \in BOOLEAN :
          /\ session = (IF supplied THEN 1 ELSE 0)
          /\ sessions = (IF supplied THEN <<NewSession("caller")>> ELSE << >>)
    /\ close_session = FALSE
    /\ token = NoneVal
    /\ refresh_token_function \in BOOLEAN
    /\ given = NoneVal
    /\ calls = 0
    /\ pc = [r \in Tasks |-> "idle"]
    /\ op = [r \in Tasks |-> ""]
    /\ uri = [r \in Tasks |-> << >>]
    /\ refreshes = [r \in Tasks |-> 0]
    /\ requests = [r \in Tasks |-> 0]
    /\ call = [r \in Tasks |-> NoCall]
    /\ answer = [r \in Tasks |-> NoAnswer]
    /\ read = [r \in Tasks |-> FALSE]
    /\ fault = [r \in Tasks |-> "none"]
    /\ result = [r \in Tasks |-> Pending]

\* No endpoint method is called on its own.
NoCalls ==
    /\ method = ""
    /\ argument = << >>
    /\ sent = << >>
    /\ outcome = Pending

\* get_identifier is not called on its own.
NoIdentifier ==
    /\ identifier = << >>
    /\ extracted = << >>

\* Nothing is decoded on its own.
NoDecoding ==
    /\ model = ""
    /\ payload = << >>
    /\ decoded = << >>

Init == ClientInit /\ NoCalls /\ NoIdentifier /\ NoDecoding

\* A client that only serves as the receiver of the calls under study.
ClientIdle ==
    /\ ClientInit
    /\ session = 0
    /\ refresh_token_function = FALSE

\* ----------------------------------------------------------------- actions
\* _request from the headers to the await of session.request (no await in
\* between): build the headers from the token, create the session when
\* there is none, hand the call to the session.
SendRequest(r, o, u, before, after) ==
    LET create == NeedsSession(session)
        all == IF create THEN Append(sessions, NewSession("client"))
               ELSE sessions
        s == IF create THEN Len(all) ELSE session
    IN /\ sessions' = all
       /\ session' = s
       /\ requests' = [requests EXCEPT ![r] = @ + 1]
       /\ close_session' = (IF create THEN TRUE ELSE close_session)
       /\ IF all[s].closed_by # "nobody"
          THEN /\ pc' = [pc EXCEPT ![r] = "done"]
               /\ result' = [result EXCEPT ![r] = OnClosedSession]
               /\ UNCHANGED call
          ELSE /\ pc' = [pc EXCEPT ![r] = "request"]
               /\ call' = [call EXCEPT ![r] =
                              CallOf(o, u, HeaderToken(before, after))]
               /\ UNCHANGED result

\* An endpoint method is called: it formats its path and enters _request,
\* which invokes refresh_token().  With a callback registered the coroutine
\* waits for it; without one the refresh is a no-op and the request goes out.
StartRequest(r, o, id) ==
    /\ UNCHANGED <<call_vars, ident_vars, decode_vars>>
    /\ pc[r] = "idle"
    /\ o \in OpsOf(r)
    /\ calls < MaxCalls
    /\ calls' = calls + 1
    /\ op' = [op EXCEPT ![r] = o]
    /\ uri' = [uri EXCEPT ![r] = UriOf(o, id)]
    /\ refreshes' = [refreshes EXCEPT ![r] = @ + 1]
    /\ IF refresh_token_function
       THEN /\ pc' = [pc EXCEPT ![r] = "refresh"]
            /\ UNCHANGED <<session, sessions, close_session, token, call,
                           result, requests>>
       ELSE /\ token' = RefreshedToken(FALSE, token, NoneVal)
            /\ SendRequest(r, o, UriOf(o, id), token, token')
    /\ UNCHANGED <<refresh_token_function, given, answer, read, fault>>

\* The refresh callback returns t: the token is assigned and the request
\* goes out.
RefreshReturn(r, t) ==
    /\ UNCHANGED <<call_vars, ident_vars, decode_vars>>
    /\ pc[r] = "refresh"
    /\ token' = RefreshedToken(TRUE, token, t)
    /\ given' = t
    /\ SendRequest(r, op[r], uri[r], token, token')
    /\ UNCHANGED <<refresh_token_function, calls, op, uri, refreshes, answer,
                   read, fault>>

\* As Timeout, with the call made again when the time is up.
TimeoutRetried(r) ==
    /\ pc[r] = "request"
    /\ requests[r] < 2
    /\ requests' = [requests EXCEPT ![r] = @ + 1]
    /\ UNCHANGED <<client_vars, calls, pc, op, uri, refreshes, call, answer,
                   read, fault, result, call_vars, ident_vars, decode_vars>>

\* As Timeout, with the refresh and the reading of the body timed as well.
TimeoutAnywhere(r) ==
    /\ pc[r] \in {"refresh", "request", "text"}
    /\ fault' = [fault EXCEPT ![r] = "timeout"]
    /\ result' = [result EXCEPT ![r] = OnTimeout]
    /\ pc' = [pc EXCEPT ![r] = "done"]
    /\ call' = [call EXCEPT ![r] = NoCall]
    /\ UNCHANGED <<client_vars, calls, op, uri, refreshes, requests, answer,
                   read, call_vars, ident_vars, decode_vars>>

\* asyncio.timeout expires while the coroutine waits in session.request.
Timeout(r) ==
    /\ UNCHANGED <<call_vars, ident_vars, decode_vars>>
    /\ pc[r] = "request"
    /\ fault' = [fault EXCEPT ![r] = "timeout"]
    /\ result' = [result EXCEPT ![r] = OnTimeout]
    /\ pc' = [pc EXCEPT ![r] = "done"]
    /\ call' = [call EXCEPT ![r] = NoCall]
    /\ UNCHANGED <<client_vars, calls, op, uri, refreshes, requests, answer,
                   read>>

\* session.request fails below HTTP (connection refused, reset, DNS).
ConnectionFailure(r) ==
    /\ UNCHANGED <<call_vars, ident_vars, decode_vars>>
    /\ pc[r] = "request"
    /\ fault' = [fault EXCEPT ![r] = "connection"]
    /\ result' = [result EXCEPT ![r] = OnClientError]
    /\ pc' = [pc EXCEPT ![r] = "done"]
    /\ call' = [call EXCEPT ![r] = NoCall]
    /\ UNCHANGED <<client_vars, calls, op, uri, refreshes, requests, answer,
                   read>>

\* session.request returns a response: a 204 ends _request with "" at once,
\* any other status goes on to await response.text().
Respond(r, a) ==
    /\ UNCHANGED <<call_vars, ident_vars, decode_vars>>
    /\ pc[r] = "request"
    /\ a \in ServedTo(r, op[r])
    /\ answer' = [answer EXCEPT ![r] = a]
    /\ call' = [call EXCEPT ![r] = NoCall]
    /\ IF IsNoContent(a.status)
       THEN /\ result' = [result EXCEPT ![r] = EndpointResult(op[r], EmptyText)]
            /\ pc' = [pc EXCEPT ![r] = "done"]
       ELSE /\ pc' = [pc EXCEPT ![r] = "text"]
            /\ UNCHANGED result
    /\ UNCHANGED <<client_vars, calls, op, uri, refreshes, requests, read,
                   fault>>

\* response.text() returns: the marker check, then the endpoint's decoding.
ReadText(r) ==
    /\ UNCHANGED <<call_vars, ident_vars, decode_vars>>
    /\ pc[r] = "text"
    /\ read' = [read EXCEPT ![r] = TRUE]
    /\ result' = [result EXCEPT ![r] = AfterText(op[r], uri[r], answer[r].body)]
    /\ pc' = [pc EXCEPT ![r] = "done"]
    /\ UNCHANGED <<client_vars, calls, op, uri, refreshes, requests, call,
                   answer, fault>>

\* The caller takes the outcome; the coroutine is gone.
Collect(r) ==
    /\ UNCHANGED <<call_vars, ident_vars, decode_vars>>
    /\ pc[r] = "done"
    /\ pc' = [pc EXCEPT ![r] = "idle"]
    /\ op' = [op EXCEPT ![r] = ""]
    /\ uri' = [uri EXCEPT ![r] = << >>]
    /\ refreshes' = [refreshes EXCEPT ![r] = 0]
    /\ requests' = [requests EXCEPT ![r] = 0]
    /\ call' = [call EXCEPT ![r] = NoCall]
    /\ answer' = [answer EXCEPT ![r] = NoAnswer]
    /\ read' = [read EXCEPT ![r] = FALSE]
    /\ fault' = [fault EXCEPT ![r] = "none"]
    /\ result' = [result EXCEPT ![r] = Pending]
    /\ UNCHANGED <<client_vars, calls>>

\* authenticate(token)
Authenticate(t) ==
    /\ UNCHANGED <<call_vars, ident_vars, decode_vars>>
    /\ token' = t
    /\ given' = t
    /\ UNCHANGED <<session, sessions, close_session, refresh_token_function,
                   task_vars>>

\* spotify.refresh_token_function = callback
SetRefreshFunction ==
    /\ UNCHANGED <<call_vars, ident_vars, decode_vars>>
    /\ ~refresh_token_function
    /\ refresh_token_function' = TRUE
    /\ UNCHANGED <<session, sessions, close_session, token, given, task_vars>>

\* The body of close(): the session is closed when there is one and the
\* client owns it.
DoClose ==
    /\ UNCHANGED <<call_vars, ident_vars, decode_vars>>
    /\ sessions' =
         IF session = 0 THEN sessions
         ELSE [sessions EXCEPT ![session] =
                 [@ EXCEPT !.close_called = TRUE,
                           !.closed_by =
                              IF ShouldClose(session, close_session)
                                 /\ @ = "nobody"
                              THEN "client" ELSE @]]
    /\ UNCHANGED <<session, close_session, token, refresh_token_function,
                   given, task_vars>>

\* close()
Close == DoClose

\* __aexit__: the context manager is left, normally or by an exception.
AExit(exceptional) == DoClose

\* The caller closes the session it supplied.
CallerClosesSession ==
    /\ UNCHANGED <<call_vars, ident_vars, decode_vars>>
    /\ \E i \in 1..Len(sessions) :
          /\ sessions[i].owner = "caller"
          /\ sessions[i].closed_by = "nobody"
          /\ sessions' = [sessions EXCEPT ![i].closed_by = "caller"]
    /\ UNCHANGED <<session, close_session, token, refresh_token_function,
                   given, task_vars>>

Next ==
    \/ \E r \in Tasks, o \in Ops, id \in Ids : StartRequest(r, o, id)
    \/ \E r \in Tasks, t \in Tokens : RefreshReturn(r, t)
    \/ \E r \in Tasks : Timeout(r)
    \/ \E r \in Tasks : ConnectionFailure(r)
    \/ \E r \in Tasks :
          /\ pc[r] = "request"
          /\ \E a \in ServedTo(r, op[r]) : Respond(r, a)
    \/ \E r \in Tasks : ReadText(r)
    \/ \E r \in Tasks : Collect(r)
    \/ \E t \in Tokens : Authenticate(t)
    \/ SetRefreshFunction
    \/ Close
    \/ \E e \in BOOLEAN : AExit(e)
    \/ CallerClosesSession

Spec == Init /\ [][Next]_vars

\* ------------------------------------------------------------------ claims
PlaybackOps == {"get_playback", "get_current_playing"}

\* C1: whenever the text _request read from a response contains the marker
\* "status": 404, the invocation has ended by raising SpotifyNotFoundError
\* with the message "Resource not found: " followed by the requested path,
\* whose identifier part is the extracted one (no scheme prefix); no value
\* is returned.  This holds whatever the HTTP status of the response was.
C1_NotFoundOnMarker ==
    \A r \in Tasks :
        (read[r] /\ Contains(answer[r].body, "\"status\": 404")) =>
            /\ pc[r] = "done"
            /\ result[r] = [kind |-> "raise", exc |-> "SpotifyNotFoundError",
                            msg |-> <<"Resource not found: ">> \o uri[r],
                            value |-> ""]
            /\ \A i \in 2..Len(uri[r]) : uri[r][i] # ":"

C1_Witness ==
    \E r \in Tasks :
        /\ read[r]
        /\ answer[r].status = 200
        /\ answer[r].body = NotFoundBody
        /\ op[r] = "get_playlist"
        /\ result[r].exc = "SpotifyNotFoundError"

\* C2: when the transport answers 204 to get_playback or
\* get_current_playing, the invocation ends at once with None, the body is
\* not read, and the call that was out is the endpoint's usual GET: its
\* path, its parameters and the three fixed headers.
C2_NoContentGivesNone ==
    [][\A r \in Tasks :
         (pc[r] = "request" /\ answer'[r].status = 204
            /\ op[r] \in PlaybackOps) =>
            /\ pc'[r] = "done"
            /\ ~read'[r]
            /\ result'[r] = Return("None")
            /\ call[r].method = "GET"
            /\ call[r].uri = (IF op[r] = "get_playback"
                              THEN <<"v1/me/player">>
                              ELSE <<"v1/me/player/currently-playing">>)
            /\ call[r].params = (IF op[r] = "get_playback"
                                 THEN {<<"additional_types", "track,episode">>}
                                 ELSE {})
            /\ DOMAIN call[r].headers = {"User-Agent", "Accept", "Authorization"}
            /\ call[r].headers["Authorization"][1] = "Bearer "
      ]_vars

C2_Witness ==
    \E r \in Tasks :
        /\ pc[r] = "done"
        /\ answer[r].status = 204
        /\ op[r] = "get_current_playing"
        /\ result[r] = Return("None")

C4_TimeoutIsConnectionError ==
    \A r \in Tasks :
        fault[r] = "timeout" =>
            /\ pc[r] = "done"
            /\ result[r].kind = "raise"
            /\ result[r].exc = "SpotifyConnectionError"
            /\ answer[r] = NoAnswer
            /\ ~read[r]

C4_Witness == \E r \in Tasks : fault[r] = "timeout" /\ pc[r] = "done"

\* C5 as stated: every transport-level failure, a connection failure as
\* well as a timeout, reaches the caller as SpotifyConnectionError.
C5_Claim ==
    \A r \in Tasks :
        fault[r] # "none" =>
            result[r].kind = "raise" /\ result[r].exc = "SpotifyConnectionError"

\* C6 as stated: a 200 answer whose content type does not contain
\* application/json always ends in a SpotifyError, never in a value and
\* never in a decoder error.
C6_Claim ==
    \A r \in Tasks :
        (pc[r] = "done" /\ answer[r].status = 200
            /\ answer[r].ctype # "application/json") =>
            result[r].kind = "raise" /\ result[r].exc \in SpotifyErrors

\* C7: the token is always exactly the string last handed to the client,
\* by authenticate or by a refresh callback's return; a refresh without a
\* callback changes nothing, so the token is None until one of them acts.
C7_TokenIsLastGiven == token = given

C7_Witness ==
    \E r \in Tasks :
        /\ pc[r] = "request"
        /\ refreshes[r] = 1
        /\ ~refresh_token_function
        /\ token = NoneVal

\* C8: a request refreshes the token exactly once and only then hands its
\* call to the transport; the call carries exactly the headers User-Agent,
\* Accept and Authorization, and Authorization is "Bearer " followed by the
\* token as it is when the refresh has completed.
C8_RefreshThenHeaders ==
    /\ [](\A r \in Tasks :
            /\ pc[r] = "refresh" => (call[r] = NoCall /\ refreshes[r] = 1)
            /\ call[r] # NoCall =>
                 /\ refreshes[r] = 1
                 /\ DOMAIN call[r].headers =
                       {"User-Agent", "Accept", "Authorization"}
                 /\ call[r].headers["User-Agent"] = <<"AioSpotify/", VERSION>>
                 /\ call[r].headers["Accept"] =
                       <<"application/json, text/plain, */*">>)
    /\ [][\A r \in Tasks :
            (call[r] = NoCall /\ call'[r] # NoCall) =>
                call'[r].headers["Authorization"] = <<"Bearer ", Str(token')>>
         ]_vars

C8_Witness ==
    \E r \in Tasks :
        /\ pc[r] = "request"
        /\ refresh_token_function
        /\ given = "token"
        /\ call[r].headers["Authorization"] = <<"Bearer ", "token">>

\* C9: a session the caller supplied is never closed by the client, and a
\* session the client created is closed once close() or __aexit__ has run
\* on it.
C9_SessionOwnership ==
    \A i \in 1..Len(sessions) :
        /\ sessions[i].owner = "caller" => sessions[i].closed_by # "client"
        /\ (sessions[i].owner = "client" /\ sessions[i].close_called) =>
               sessions[i].closed_by = "client"

C9_Witness ==
    /\ \E i \in 1..Len(sessions) :
          /\ sessions[i].owner = "caller"
          /\ sessions[i].close_called
          /\ sessions[i].closed_by = "nobody"
    /\ \E r \in Tasks : pc[r] = "done" /\ result[r].kind = "return"

\* C10: the client creates at most one session in its lifetime: none
\* before the first request, none when one was supplied, no second one
\* under overlapping requests and no replacement after close().
C10_OneSession ==
    LET own == {i \in 1..Len(sessions) : sessions[i].owner = "client"}
        supplied == {i \in 1..Len(sessions) : sessions[i].owner = "caller"}
    IN /\ Cardinality(own) <= 1
       /\ supplied # {} => own = {}
       /\ calls = 0 => own = {}

C10_Witness ==
    /\ Len(sessions) = 1
    /\ sessions[1].owner = "client"
    /\ sessions[1].closed_by = "client"
    /\ \E r \in Tasks : pc[r] = "done" /\ result[r] = OnClosedSession

\* C23 as stated: an invocation whose request the upstream answers with 401
\* ends by raising SpotifyAuthenticationFailedError and returns no value.
C23_Claim ==
    \A r \in Tasks :
        (pc[r] = "done" /\ answer[r].status = 401) =>
            /\ result[r].kind = "raise"
            /\ result[r].exc = "SpotifyAuthenticationFailedError"

\* C24: an invocation that reaches _request calls session.request exactly
\* once, whatever comes of it: none before the refresh has returned, one
\* from then on, and no second one after a timeout, a failure, an empty
\* answer or a not-found answer.  Once the invocation has ended, its outcome
\* stays as it is until the caller has it, and a timeout, a failure and a
\* not-found answer end it with an exception.
C24_OneTransportCall ==
    /\ [](\A r \in Tasks :
            /\ pc[r] \in {"idle", "refresh"} => requests[r] = 0
            /\ pc[r] \in {"request", "text", "done"} => requests[r] = 1
            /\ (pc[r] = "done"
                  /\ (fault[r] # "none"
                        \/ (read[r] /\ Contains(answer[r].body, "\"status\": 404"))))
                  => result[r].kind = "raise")
    /\ [][\A r \in Tasks :
            pc[r] = "done" =>
                \/ /\ pc'[r] = "done"
                   /\ requests'[r] = requests[r]
                   /\ result'[r] = result[r]
                \/ /\ pc'[r] = "idle"
                   /\ requests'[r] = 0
         ]_vars

C24_Witness ==
    \E r \in Tasks :
        /\ pc[r] = "done"
        /\ fault[r] = "timeout"
        /\ requests[r] = 1
        /\ result[r].exc = "SpotifyConnectionError"
        /\ \E q \in Tasks : pc[q] = "done" /\ read[q] /\ requests[q] = 1
                              /\ result[q].exc = "SpotifyNotFoundError"

\* C25: with requests overlapping on one client, each refresh callback that
\* returns leaves the token equal to the string it returned, whatever the
\* other requests wrote before, and the token changes in no other way than
\* by such a whole assignment: it is never unset again and never a mix.
C25_LastRefreshWins ==
    /\ [][\A r \in Tasks :
            (pc[r] = "refresh" /\ pc'[r] # "refresh") =>
                /\ token' \in Tokens
                /\ token' = given'
                /\ \A q \in Tasks :
                      (q # r /\ pc'[q] = "request" /\ pc[q] = "request")
                         => call'[q] = call[q]
                /\ pc'[r] = "request" =>
                      <<"Bearer ", token'>> = call'[r].headers["Authorization"]
         ]_vars
    /\ [][token' # token => (token' \in Tokens /\ token' = given')]_vars

C25_Witness ==
    /\ refresh_token_function
    /\ \A r \in Tasks : pc[r] = "request" /\ refreshes[r] = 1
    /\ call[1].headers["Authorization"] = <<"Bearer ", "test">>
    /\ call[2].headers["Authorization"] = <<"Bearer ", "token">>
    /\ token = "test"

\* C27: the Authorization header of a request whose refresh callback
\* returned t is "Bearer t", in every interleaving: the headers are built in
\* the step in which the callback returns, and the call that is out keeps
\* them whatever the other requests write to the token afterwards.
C27_OwnTokenInHeader ==
    /\ [][\A r \in Tasks :
            (pc[r] = "refresh" /\ pc'[r] = "request") =>
                call'[r].headers["Authorization"] = <<"Bearer ", given'>>
         ]_vars
    /\ [][\A r \in Tasks :
            (pc[r] = "request" /\ pc'[r] = "request") =>
                call'[r].headers = call[r].headers
         ]_vars

C27_Witness ==
    /\ refresh_token_function
    /\ pc[1] = "request"
    /\ call[1].headers["Authorization"] = <<"Bearer ", "test">>
    /\ pc[2] = "text"
    /\ refreshes[2] = 1
    /\ token = "token"

\* C28: the time limit covers the wait in session.request and nothing
\* else.  A timeout strikes only a request that is waiting there, and it is
\* the only source of SpotifyConnectionError; a request waiting for its
\* refresh callback leaves that wait only when the callback returns, and a
\* request reading the body of its response only when the body is read.
C28_TimeoutScope ==
    /\ [][\A r \in Tasks :
            /\ (fault'[r] = "timeout" /\ fault[r] # "timeout") =>
                  /\ pc[r] = "request"
                  /\ call[r] # NoCall
                  /\ result'[r].exc = "SpotifyConnectionError"
            /\ (pc[r] = "refresh" /\ pc'[r] # "refresh") =>
                  /\ given' \in Tokens
                  /\ requests'[r] = 1
                  /\ fault'[r] = "none"
            /\ (pc[r] = "text" /\ pc'[r] # "text") =>
                  /\ read'[r]
                  /\ fault'[r] = "none"
                  /\ result'[r].exc # "SpotifyConnectionError"
         ]_vars
    /\ [](\A r \in Tasks :
            result[r].exc = "SpotifyConnectionError" =>
                /\ fault[r] = "timeout"
                /\ requests[r] = 1
                /\ answer[r] = NoAnswer
                /\ ~read[r])

C28_Witness ==
    \E r, q \in Tasks :
        /\ result[r].exc = "SpotifyConnectionError"
        /\ refreshes[r] = 1
        /\ refresh_token_function
        /\ pc[q] = "text"
        /\ ~read[q]

MaxIds == 101

\* The ceilings the batch methods test len(ids) against.
MaxAlbumsAtOnce == 20
MaxAtOnce == 50
MaxPlaylistItemsAtOnce == 100

\* An id list: the same id a number of times.
IdLists == { [i \in 1..n |-> id] : n \in 0..MaxIds, id \in Ids }

BatchGetters == {"get_albums", "get_artists", "get_audiobooks",
                 "get_chapters", "get_episodes"}
BatchSavers == {"save_albums", "save_audiobooks", "save_episodes",
                "save_shows", "save_tracks", "follow_account"}
BatchRemovers == {"remove_saved_albums", "remove_saved_audiobooks",
                  "remove_saved_episodes", "remove_saved_shows",
                  "remove_saved_tracks", "unfollow_account"}
BatchCheckers == {"are_albums_saved", "are_audiobooks_saved",
                  "are_episodes_saved", "are_shows_saved",
                  "are_tracks_saved", "are_accounts_followed"}
PlaylistEditors == {"add_playlist_items", "remove_playlist_items"}
BatchMethods == BatchGetters \cup BatchSavers \cup BatchRemovers
                \cup BatchCheckers \cup PlaylistEditors

\* The methods that open with "if not ids: return ...": get_audiobooks and
\* the two playlist editors have no such test.
ReturnsOnEmpty(m) == m \notin ({"get_audiobooks"} \cup PlaylistEditors)

\* What "if not ids" returns: [] from a getter, {} from a checker, None
\* from the methods that return nothing.
NeutralResult(m) ==
    CASE m \in BatchGetters -> "[]"
      [] m \in BatchCheckers -> "{}"
      [] OTHER -> "None"

\* The methods that test "if len(ids) > N": get_audiobooks does not.
HasMaximum(m) == m # "get_audiobooks"

\* The N of that test.
MaximumOf(m) ==
    CASE m \in {"get_albums", "are_albums_saved"} -> MaxAlbumsAtOnce
      [] m \in PlaylistEditors -> MaxPlaylistItemsAtOnce
      [] OTHER -> MaxAtOnce

\* The message of the ValueError.
MaximumMsg(m) ==
    LET count == CASE m \in {"get_albums", "are_albums_saved"} -> "20"
                   [] m \in PlaylistEditors -> "100"
                   [] OTHER -> "50"
        noun == CASE m \in {"get_albums", "save_albums",
                            "remove_saved_albums", "are_albums_saved"}
                       -> "albums"
                  [] m = "get_artists" -> "artists"
                  [] m \in {"save_audiobooks", "remove_saved_audiobooks",
                            "are_audiobooks_saved"} -> "audiobooks"
                  [] m = "get_chapters" -> "chapters"
                  [] m \in {"get_episodes", "save_episodes",
                            "remove_saved_episodes", "are_episodes_saved"}
                       -> "episodes"
                  [] m \in {"save_shows", "remove_saved_shows",
                            "are_shows_saved"} -> "shows"
                  [] m \in {"follow_account", "unfollow_account",
                            "are_accounts_followed"} -> "accounts"
                  [] OTHER -> "tracks"
        done == CASE m = "follow_account" -> "followed"
                  [] m = "unfollow_account" -> "unfollowed"
                  [] m = "add_playlist_items" -> "added"
                  [] m \in BatchGetters -> "requested"
                  [] m \in BatchSavers -> "saved"
                  [] m \in BatchCheckers -> "checked"
                  [] OTHER -> "removed"
    IN <<"Maximum of ", count, " ", noun, " can be ", done, " at once">>

\* ",".join(parts)
RECURSIVE Join(_, _)
Join(parts, sep) ==
    IF Len(parts) = 0 THEN << >>
    ELSE IF Len(parts) = 1 THEN parts[1]
    ELSE LET half == Len(parts) \div 2
         IN Join(SubSeq(parts, 1, half), sep) \o <<sep>>
            \o Join(SubSeq(parts, half + 1, Len(parts)), sep)

\* The HTTP method of the request a batch method makes.
BatchVerb(m) ==
    CASE m \in BatchGetters \cup BatchCheckers -> "GET"
      [] m \in BatchSavers -> "PUT"
      [] m = "add_playlist_items" -> "POST"
      [] OTHER -> "DELETE"

\* Its path; the playlist editors put the playlist's identifier in it.
BatchPath(m, id) ==
    LET kind == CASE m \in {"save_albums", "remove_saved_albums",
                            "are_albums_saved"} -> "v1/me/albums"
                  [] m \in {"save_audiobooks", "remove_saved_audiobooks",
                            "are_audiobooks_saved"} -> "v1/me/audiobooks"
                  [] m \in {"save_episodes", "remove_saved_episodes",
                            "are_episodes_saved"} -> "v1/me/episodes"
                  [] m \in {"save_shows", "remove_saved_shows",
                            "are_shows_saved"} -> "v1/me/shows"
                  [] m \in {"save_tracks", "remove_saved_tracks",
                            "are_tracks_saved"} -> "v1/me/tracks"
                  [] m \in {"follow_account", "unfollow_account",
                            "are_accounts_followed"} -> "v1/me/following"
                  [] m = "get_albums" -> "v1/albums"
                  [] m = "get_artists" -> "v1/artists"
                  [] m = "get_audiobooks" -> "v1/audiobooks"
                  [] m = "get_chapters" -> "v1/chapters"
                  [] m = "get_episodes" -> "v1/episodes"
                  [] OTHER -> "v1/playlists/"
    IN CASE m \in PlaylistEditors
              -> <<kind>> \o get_identifier(id) \o <<"/tracks">>
         [] m \in BatchCheckers -> <<kind, "/contains">>
         [] OTHER -> <<kind>>

\* The request a batch method hands to _request: the ids go into the
\* "ids" parameter as the comma-joined identifiers, the uris of a playlist
\* editor into the body as they are.
BatchRequest(m, id, ids) ==
    [verb |-> BatchVerb(m),
     path |-> BatchPath(m, id),
     ids |-> IF m \in PlaylistEditors THEN << >>
             ELSE Join([i \in 1..Len(ids) |-> get_identifier(ids[i])], ","),
     data |-> IF m \in PlaylistEditors THEN ids ELSE << >>]

\* What a batch method returns from an answered request: the decoded list,
\* the dict zipped from the identifiers, the snapshot id, or nothing.
AnsweredResult(m) ==
    CASE m \in BatchGetters -> "list"
      [] m \in BatchCheckers -> "dict"
      [] m \in PlaylistEditors -> "snapshot_id"
      [] OTHER -> "None"

\* One batch method is called with one id list on a client as constructed,
\* with or without a session and a callback supplied.
BatchInit ==
    /\ ClientInit
    /\ NoIdentifier
    /\ NoDecoding
    /\ method \in BatchMethods
    /\ argument \in {<<[id |-> l.id, ids |-> l.ids]>> :
                       l \in {[id |-> id, ids |-> [i \in 1..n |-> id]] :
                                n \in 0..MaxIds, id \in Ids}}
    /\ sent = << >>
    /\ outcome = Pending

\* _request from its entry to the await of session.request, as coroutine r
\* runs it for a call under study: the refresh (the callback, when there is
\* one, returns some token), then the session is created when there is none.
EnterRequest(r) ==
    LET create == NeedsSession(session)
    IN /\ refreshes' = [refreshes EXCEPT ![r] = @ + 1]
       /\ \E t \in Tokens :
             /\ token' = RefreshedToken(refresh_token_function, token, t)
             /\ given' = (IF refresh_token_function THEN t ELSE given)
       /\ sessions' = (IF create THEN Append(sessions, NewSession("client"))
                       ELSE sessions)
       /\ session' = (IF create THEN Len(sessions) + 1 ELSE session)
       /\ close_session' = (IF create THEN TRUE ELSE close_session)
       /\ requests' = [requests EXCEPT ![r] = @ + 1]
       /\ UNCHANGED <<refresh_token_function, calls, pc, op, uri, call, answer,
                      read, fault, result>>

\* As CallBatch, with _request entered before the tests are made.
CallBatchRequestFirst ==
    /\ method \in BatchMethods
    /\ outcome = Pending
    /\ sent = << >>
    /\ EnterRequest(1)
    /\ LET a == argument[1]
       IN IF ReturnsOnEmpty(method) /\ Len(a.ids) = 0
          THEN /\ outcome' = Return(NeutralResult(method))
               /\ UNCHANGED sent
          ELSE IF HasMaximum(method) /\ Len(a.ids) > MaximumOf(method)
          THEN /\ outcome' = Raise("ValueError", MaximumMsg(method))
               /\ UNCHANGED sent
          ELSE /\ sent' = <<BatchRequest(method, a.id, a.ids)>>
               /\ UNCHANGED outcome
    /\ UNCHANGED <<method, argument, ident_vars, decode_vars>>

\* The method up to the await of session.request: the empty test, the size
\* test, then the request.
CallBatch ==
    /\ method \in BatchMethods
    /\ outcome = Pending
    /\ sent = << >>
    /\ LET a == argument[1]
       IN IF ReturnsOnEmpty(method) /\ Len(a.ids) = 0
          THEN /\ outcome' = Return(NeutralResult(method))
               /\ UNCHANGED <<sent, client_vars, task_vars>>
          ELSE IF HasMaximum(method) /\ Len(a.ids) > MaximumOf(method)
          THEN /\ outcome' = Raise("ValueError", MaximumMsg(method))
               /\ UNCHANGED <<sent, client_vars, task_vars>>
          ELSE /\ sent' = <<BatchRequest(method, a.id, a.ids)>>
               /\ EnterRequest(1)
               /\ UNCHANGED outcome
    /\ UNCHANGED <<method, argument, ident_vars, decode_vars>>

\* _request returns the answer and the method returns its result.
AnswerBatch ==
    /\ method \in BatchMethods
    /\ outcome = Pending
    /\ sent # << >>
    /\ outcome' = Return(AnsweredResult(method))
    /\ UNCHANGED <<method, argument, sent, client_vars, task_vars,
                   ident_vars, decode_vars>>

BatchNext == CallBatch \/ AnswerBatch

BatchSpec == BatchInit /\ [][BatchNext]_vars

\* The methods C11 lists: every batch method that takes ids.
IdBatchMethods == BatchMethods \ PlaylistEditors

\* C11 as stated: a batch method called with an empty id list makes no
\* network call and returns its neutral result.
C11_Claim ==
    (method \in IdBatchMethods /\ Len(argument[1].ids) = 0)
        => /\ sent = << >>
           /\ outcome \in {Pending, Return(NeutralResult(method))}

\* C12 as stated: with the maximum M the spec gives each batch method (20
\* for get_albums and are_albums_saved, 100 for the playlist editors, 50
\* for the others), a call with n ids raises ValueError before any network
\* call exactly when n > M, and n = M makes exactly one network call.
C12_Claim ==
    (method \in BatchMethods /\ (outcome # Pending \/ sent # << >>))
        => LET n == Len(argument[1].ids)
               M == CASE method \in {"get_albums", "are_albums_saved"} -> 20
                      [] method \in {"add_playlist_items",
                                     "remove_playlist_items"} -> 100
                      [] OTHER -> 50
           IN /\ (outcome.kind = "raise") <=> (n > M)
              /\ outcome.kind = "raise"
                    => outcome.exc = "ValueError" /\ sent = << >>
              /\ n = M => Len(sent) = 1

\* C30: a batch call that ends without a request, rejected for its size or
\* returned at once for its empty list, leaves the client as it was
\* constructed: the refresh was not invoked, the token is still unset, no
\* session was created (the one supplied, if any, is still the client's)
\* and the ownership flag is not set.
C30_RejectedCallsLeaveClient ==
    (method \in BatchMethods /\ outcome # Pending /\ sent = << >>)
        => /\ outcome.kind = "raise" => outcome.exc = "ValueError"
           /\ refreshes[1] = 0
           /\ requests[1] = 0
           /\ token = NoneVal
           /\ given = NoneVal
           /\ ~close_session
           /\ Len(sessions) <= 1
           /\ session = Len(sessions)
           /\ \A i \in 1..Len(sessions) : sessions[i] = NewSession("caller")

C30_Witness ==
    /\ method = "get_albums"
    /\ Len(argument[1].ids) = 21
    /\ outcome.kind = "raise"
    /\ refresh_token_function
    /\ session = 0
    /\ sessions = << >>
    /\ ~close_session
    /\ token = NoneVal

\* -------------------------------------------------------- get_identifier
\* Longest string get_identifier is applied to.
MaxIdentifierLen == 5

\* The characters of those strings.
Chars == {"a", "b", ":"}

Strings ==
    UNION { [1..n -> Chars] : n \in 0..MaxIdentifierLen }

\* get_identifier is called on one string.
IdentifierInit ==
    /\ ClientIdle
    /\ NoCalls
    /\ NoDecoding
    /\ identifier \in Strings
    /\ extracted = << >>

\* get_identifier(identifier), then get_identifier of what that returned.
GetIdentifier ==
    /\ Len(extracted) < 2
    /\ extracted' =
         Append(extracted,
                get_identifier(IF Len(extracted) = 0 THEN identifier
                               ELSE extracted[Len(extracted)]))
    /\ UNCHANGED <<identifier, client_vars, task_vars, call_vars,
                   decode_vars>>

IdentifierNext == GetIdentifier

IdentifierSpec == IdentifierInit /\ [][IdentifierNext]_vars

HasColon(s) == \E i \in 1..Len(s) : s[i] = ":"

\* C13: get_identifier returns the segment after the last ':' of its
\* argument: a colon-free suffix that starts the argument or follows a
\* ':'.  So "scheme:type:id" and the bare "id" give the same "id", a
\* colon-free argument is returned whole, and applying get_identifier to
\* its own result changes nothing.
C13_LastSegment ==
    /\ Len(extracted) >= 1 =>
          LET e == extracted[1]
              cut == Len(identifier) - Len(e)
          IN /\ ~HasColon(e)
             /\ cut >= 0
             /\ SubSeq(identifier, cut + 1, Len(identifier)) = e
             /\ cut > 0 => identifier[cut] = ":"
             /\ ~HasColon(identifier) => e = identifier
    /\ Len(extracted) = 2 => extracted[2] = extracted[1]

C13_Witness ==
    /\ identifier = <<"a", ":", "b", ":", "a">>
    /\ extracted = << <<"a">>, <<"a">> >>

\* ------------------------------------------- methods taking a resource id
ResourceMethods ==
    {"get_album", "get_album_tracks", "get_artist", "get_artist_albums",
     "get_artist_top_tracks", "get_audiobook", "get_audiobook_chapters",
     "get_chapter", "get_episode", "get_playlist", "update_playlist_details",
     "get_playlist_items", "update_playlist_items", "get_playlists_for_user",
     "create_playlist", "get_playlist_cover_image", "get_show",
     "get_show_episodes", "get_audio_features", "get_user",
     "follow_playlist", "unfollow_playlist", "is_following_playlist"}

\* The methods that put get_identifier(id), or id.split(":")[-1], into the
\* path: get_user formats its argument into the path as it is.
ExtractsIdentifier(m) == m # "get_user"

\* The part of the path before the id.
PathBefore(m) ==
    CASE m \in {"get_album", "get_album_tracks"} -> "v1/albums/"
      [] m \in {"get_artist", "get_artist_albums", "get_artist_top_tracks"}
           -> "v1/artists/"
      [] m \in {"get_audiobook", "get_audiobook_chapters"} -> "v1/audiobooks/"
      [] m = "get_chapter" -> "v1/chapters/"
      [] m = "get_episode" -> "v1/episodes/"
      [] m \in {"get_show", "get_show_episodes"} -> "v1/shows/"
      [] m = "get_audio_features" -> "v1/audio-features/"
      [] m = "get_playlists_for_user" -> "v1/user/"
      [] m \in {"create_playlist", "get_user"} -> "v1/users/"
      [] OTHER -> "v1/playlists/"

\* The part of the path after the id.
PathAfter(m) ==
    CASE m \in {"get_album_tracks", "get_playlist_items",
                "update_playlist_items"} -> "/tracks"
      [] m = "get_artist_albums" -> "/albums"
      [] m = "get_artist_top_tracks" -> "/top-tracks"
      [] m = "get_audiobook_chapters" -> "/chapters"
      [] m \in {"get_playlists_for_user", "create_playlist"} -> "/playlists"
      [] m = "get_playlist_cover_image" -> "/images"
      [] m = "get_show_episodes" -> "/episodes"
      [] m \in {"follow_playlist", "unfollow_playlist"} -> "/followers"
      [] m = "is_following_playlist" -> "/followers/contains"
      [] OTHER -> ""

ResourceVerb(m) ==
    CASE m \in {"update_playlist_details", "update_playlist_items",
                "follow_playlist"} -> "PUT"
      [] m = "create_playlist" -> "POST"
      [] m = "unfollow_playlist" -> "DELETE"
      [] OTHER -> "GET"

\* The query parameters, none of which holds the id.
ResourceParams(m) ==
    CASE m \in {"get_album_tracks", "get_artist_albums", "get_playlist_items",
                "get_playlists_for_user", "get_show_episodes"}
           -> <<"limit", "48">>
      [] m = "get_audiobook_chapters" -> <<"limit", "50">>
      [] m = "get_playlist" -> <<"additional_types", "track,episode">>
      [] OTHER -> << >>

\* The request the method hands to _request for the id it was given.
ResourceRequest(m, id) ==
    [verb |-> ResourceVerb(m),
     path |-> <<PathBefore(m)>>
              \o (IF ExtractsIdentifier(m) THEN get_identifier(id) ELSE id)
              \o <<PathAfter(m)>>,
     params |-> ResourceParams(m)]

\* The ids of one resource: colon-free strings.
BareIds == { <<"a">>, <<"b">>, <<"a", "b">> }

\* The forms a caller may give an id in: bare, "scheme:type:id", and
\* "scheme:user:name:type:id".
UriForms(bare) ==
    { bare, <<"s", ":", "t", ":">> \o bare,
      <<"s", ":", "u", ":", "n", ":", "t", ":">> \o bare }

\* One method is called twice for the same resource, the id given in any
\* two forms.
ResourceInit ==
    /\ ClientIdle
    /\ NoIdentifier
    /\ NoDecoding
    /\ method \in ResourceMethods
    /\ \E bare \in BareIds :
          argument \in {<<[id |-> f, ids |-> << >>], [id |-> g, ids |-> << >>]>> :
                          f \in UriForms(bare), g \in UriForms(bare)}
    /\ sent = << >>
    /\ outcome = Pending

\* The method up to its await of _request.
CallResource ==
    /\ method \in ResourceMethods
    /\ Len(sent) < Len(argument)
    /\ Len(sent) = 0 \/ outcome # Pending
    /\ sent' = Append(sent, ResourceRequest(method, argument[Len(sent) + 1].id))
    /\ outcome' = Pending
    /\ UNCHANGED <<method, argument, client_vars, task_vars, ident_vars,
                   decode_vars>>

\* _request returns the answer and the method returns its result.
AnswerResource ==
    /\ method \in ResourceMethods
    /\ Len(sent) > 0
    /\ outcome = Pending
    /\ outcome' = Return("answer")
    /\ UNCHANGED <<method, argument, sent, client_vars, task_vars,
                   ident_vars, decode_vars>>

ResourceNext == CallResource \/ AnswerResource

ResourceSpec == ResourceInit /\ [][ResourceNext]_vars

\* C14 as stated: every method that takes a resource id sends the same
\* path and parameters whether the id is given as a URI or bare.
C14_Claim == Len(sent) = 2 => sent[1] = sent[2]

\* --------------------------------------------------------------- models.py
\* A parsed JSON value, tagged with its kind.  A string is a sequence of
\* characters or of longer pieces; an album type is spelled character by
\* character.
JNull == [j |-> "null"]
JBool(b) == [j |-> "bool", b |-> b]
JInt(n) == [j |-> "int", n |-> n]
JStr(s) == [j |-> "str", s |-> s]
JArr(a) == [j |-> "arr", a |-> a]
JObj(o) == [j |-> "obj", o |-> o]

\* {**d, key: value}
With(d, key, value) ==
    [k \in DOMAIN d \cup {key} |-> IF k = key THEN value ELSE d[k]]

\* Python truth of a JSON value.
Truthy(v) ==
    CASE v.j = "null" -> FALSE
      [] v.j = "bool" -> v.b
      [] v.j = "int" -> v.n # 0
      [] v.j = "str" -> Len(v.s) > 0
      [] v.j = "arr" -> Len(v.a) > 0
      [] OTHER -> DOMAIN v.o # {}

\* str.lower()
Lower(s) ==
    LET
        UpperLetters ==
            <<"A", "B", "C", "D", "E", "F", "G", "H", "I", "J", "K", "L", "M",
              "N", "O", "P", "Q", "R", "S", "T", "U", "V", "W", "X", "Y", "Z">>
        LowerLetters ==
            <<"a", "b", "c", "d", "e", "f", "g", "h", "i", "j", "k", "l", "m",
              "n", "o", "p", "q", "r", "s", "t", "u", "v", "w", "x", "y", "z">>
    IN [i \in 1..Len(s) |->
          IF \E k \in 1..Len(UpperLetters) : UpperLetters[k] = s[i]
          THEN LowerLetters[CHOOSE k \in 1..Len(UpperLetters) :
                              UpperLetters[k] = s[i]]
          ELSE s[i]]

\* The enumerations of the playable items and of the albums.
AlbumType == { <<"a", "l", "b", "u", "m">>, <<"e", "p">>,
               <<"s", "i", "n", "g", "l", "e">>,
               <<"c", "o", "m", "p", "i", "l", "a", "t", "i", "o", "n">> }
ItemType == { <<"track">>, <<"episode">> }

\* dataclasses.fields(cls): the fields of a class by the key each is read
\* from, in the order of the dataclass, a base class's fields first.
Fields(cls) ==
    LET
        \* The other enumerations.
        RepeatMode == { <<"off">>, <<"track">>, <<"context">> }
        ContextType == { <<"album">>, <<"artist">>, <<"playlist">>,
                         <<"collection">>, <<"show">> }
        ReleaseDatePrecision == { <<"year">>, <<"month">>, <<"day">> }
        DeviceType == { <<"AudioDongle">>, <<"AVR">>, <<"Automobile">>,
                        <<"CastAudio">>, <<"CastVideo">>, <<"Computer">>,
                        <<"GameConsole">>, <<"STB">>, <<"Smartphone">>,
                        <<"Smartwatch">>, <<"Speaker">>, <<"Tablet">>, <<"TV">>,
                        <<"Unknown">> }

        \* Field types.
        TStr == [t |-> "str"]
        TInt == [t |-> "int"]
        TBool == [t |-> "bool"]
        TDatetime == [t |-> "datetime"]
        TDict == [t |-> "dict"]
        TEnum(values) == [t |-> "enum", values |-> values]
        TClass(c) == [t |-> "class", cls |-> c]
        TList(of) == [t |-> "list", of |-> of]
        TOpt(of) == [t |-> "opt", of |-> of]
        \* Annotated[Item, Discriminator(field="type", include_subtypes=True)]
        TItem == [t |-> "item"]

        \* A dataclass field by the key it is read from: required, or with a
        \* default.  The fields of a class are listed in the order of the
        \* dataclass, a base class's fields first.
        F(key, type) == [key |-> key, type |-> type, required |-> TRUE,
                         default |-> JNull]
        FDefault(key, type, default) ==
            [key |-> key, type |-> type, required |-> FALSE, default |-> default]

        ImageFields ==
            <<F("height", TOpt(TInt)), F("width", TOpt(TInt)), F("url", TStr)>>
        SimplifiedArtistFields ==
            <<F("id", TStr), F("name", TStr), F("uri", TStr)>>
        SimplifiedAlbumFields ==
            <<F("album_type", TEnum(AlbumType)), F("total_tracks", TInt),
             F("id", TStr), F("images", TList(TClass("Image"))), F("name", TStr),
             F("release_date", TStr),
             F("release_date_precision", TEnum(ReleaseDatePrecision)),
             F("uri", TStr), F("artists", TList(TClass("SimplifiedArtist")))>>
        SimplifiedTrackFields ==
            <<F("id", TStr), F("artists", TList(TClass("SimplifiedArtist"))),
             F("disc_number", TInt), F("duration_ms", TInt), F("explicit", TBool),
             F("external_urls", TDict), F("href", TStr), F("name", TStr),
             F("is_local", TBool), F("track_number", TInt), F("uri", TStr)>>
        AlbumFields ==
            SimplifiedAlbumFields \o <<F("tracks", TList(TClass("SimplifiedTrack")))>>
        SavedAlbumFields ==
            <<F("added_at", TDatetime), F("album", TClass("Album"))>>
        SavedAlbumResponseFields == <<F("items", TList(TClass("SavedAlbum")))>>
        ItemFields ==
            <<F("type", TEnum(ItemType)), F("uri", TStr), F("explicit", TBool),
             F("duration_ms", TInt), F("external_urls", TDict), F("href", TStr),
             F("name", TStr)>>
        TrackFields ==
            ItemFields \o SimplifiedTrackFields
            \o <<F("album", TClass("SimplifiedAlbum"))>>
        ContextFields ==
            <<F("external_urls", TDict), F("href", TStr),
             F("type", TEnum(ContextType)), F("uri", TStr)>>
        DeviceFields ==
            <<F("id", TOpt(TStr)), F("is_active", TBool),
             F("is_private_session", TBool), F("is_restricted", TBool),
             F("name", TStr), F("type", TEnum(DeviceType)),
             F("volume_percent", TInt),
             FDefault("supports_volume", TBool, JBool(TRUE))>>
        CurrentPlayingFields ==
            <<F("context", TOpt(TClass("Context"))), F("progress_ms", TOpt(TInt)),
             F("is_playing", TBool), F("item", TOpt(TItem)),
             F("currently_playing_type", TOpt(TStr))>>
        PlaybackStateFields ==
            CurrentPlayingFields
            \o <<F("device", TClass("Device")), F("shuffle_state", TBool),
                  F("repeat_state", TEnum(RepeatMode))>>
        PlaylistOwnerFields ==
            <<F("display_name", TStr), F("external_urls", TDict), F("href", TStr),
             F("id", TStr), F("type", TStr), F("uri", TStr)>>
        BasePlaylistFields ==
            <<F("collaborative", TBool), F("description", TOpt(TStr)),
             F("external_urls", TDict), F("id", TStr),
             F("images", TList(TClass("Image"))), F("name", TStr),
             F("owner", TClass("PlaylistOwner")), F("public", TOpt(TBool)),
             F("type", TStr), F("uri", TStr)>>
        PlaylistFields ==
            BasePlaylistFields \o <<F("tracks", TClass("PlaylistTracks"))>>
        PlaylistTracksFields == <<F("items", TList(TClass("PlaylistTrack")))>>
        PlaylistTrackFields == <<F("track", TItem)>>
        PlaylistResponseFields ==
            <<F("href", TStr), F("items", TList(TClass("BasePlaylist"))),
             F("limit", TInt), F("next", TOpt(TStr)), F("offset", TInt),
             F("previous", TOpt(TStr)), F("total", TInt)>>
        SimplifiedShowFields ==
            <<F("id", TStr), F("name", TStr), F("uri", TStr),
             F("images", TList(TClass("Image"))), F("external_urls", TDict),
             F("href", TStr), F("publisher", TStr), F("description", TStr),
             F("total_episodes", TOpt(TInt))>>
        SimplifiedEpisodeFields ==
            <<F("id", TStr), F("name", TStr), F("uri", TStr),
             F("images", TList(TClass("Image"))), F("external_urls", TDict),
             F("href", TStr), F("duration_ms", TInt), F("explicit", TBool),
             F("release_date", TStr),
             F("release_date_precision", TEnum(ReleaseDatePrecision)),
             F("description", TStr)>>
        EpisodeFields ==
            ItemFields \o SimplifiedEpisodeFields
            \o <<F("show", TClass("SimplifiedShow"))>>
        ShowFields ==
            SimplifiedShowFields
            \o <<F("episodes", TList(TClass("SimplifiedEpisode")))>>
        ChapterFields ==
            <<F("id", TStr), F("chapter_number", TInt), F("duration_ms", TInt),
             F("images", TList(TClass("Image"))), F("languages", TList(TStr)),
             F("name", TStr), F("explicit", TBool), F("type", TStr),
             F("uri", TStr), F("external_urls", TDict)>>
        AuthorFields == <<F("name", TStr)>>
        NarratorFields == <<F("name", TStr)>>
        AudiobookFields ==
            <<F("authors", TList(TClass("Author"))),
             F("chapters", TList(TClass("Chapter"))), F("description", TStr),
             F("edition", TStr), F("external_urls", TDict), F("explicit", TBool),
             F("html_description", TStr), F("id", TStr),
             F("images", TList(TClass("Image"))), F("languages", TList(TStr)),
             F("name", TStr), F("narrators", TList(TClass("Narrator"))),
             F("publisher", TStr), F("total_chapters", TInt), F("type", TStr),
             F("uri", TStr)>>
        AudiobooksResponseFields == <<F("audiobooks", TList(TClass("Audiobook")))>>
    IN
    CASE cls = "Image" -> ImageFields
      [] cls = "SimplifiedArtist" -> SimplifiedArtistFields
      [] cls = "SimplifiedAlbum" -> SimplifiedAlbumFields
      [] cls = "SimplifiedTrack" -> SimplifiedTrackFields
      [] cls = "Album" -> AlbumFields
      [] cls = "SavedAlbum" -> SavedAlbumFields
      [] cls = "SavedAlbumResponse" -> SavedAlbumResponseFields
      [] cls = "Track" -> TrackFields
      [] cls = "Context" -> ContextFields
      [] cls = "Device" -> DeviceFields
      [] cls = "CurrentPlaying" -> CurrentPlayingFields
      [] cls = "PlaybackState" -> PlaybackStateFields
      [] cls = "PlaylistOwner" -> PlaylistOwnerFields
      [] cls = "BasePlaylist" -> BasePlaylistFields
      [] cls = "Playlist" -> PlaylistFields
      [] cls = "PlaylistTracks" -> PlaylistTracksFields
      [] cls = "PlaylistTrack" -> PlaylistTrackFields
      [] cls = "PlaylistResponse" -> PlaylistResponseFields
      [] cls = "SimplifiedShow" -> SimplifiedShowFields
      [] cls = "SimplifiedEpisode" -> SimplifiedEpisodeFields
      [] cls = "Episode" -> EpisodeFields
      [] cls = "Show" -> ShowFields
      [] cls = "Chapter" -> ChapterFields
      [] cls = "Author" -> AuthorFields
      [] cls = "Narrator" -> NarratorFields
      [] cls = "Audiobook" -> AudiobookFields
      [] cls = "AudiobooksResponse" -> AudiobooksResponseFields

\* What a hook gives: the dict it returns, or the exception it raises.
HookReturn(d) == [ok |-> TRUE, d |-> d]
HookRaise(err) == [ok |-> FALSE, err |-> err]

\* The comprehension that keeps every item.
NotNoneKeepsAll(items) == items

\* [item for item in items if item is not None]
NotNone(items) == SelectSeq(items, LAMBDA item : item.j # "null")

\* The comprehension that keeps every item.
NotLocalKeepsAll(items) == items

\* [item for item in items if not item["is_local"]]
NotLocal(items) == SelectSeq(items, LAMBDA item : ~Truthy(item.o.is_local))

\* The lookup that keeps no more than the first item.
PopItemsFirstOnly(d, key) ==
    IF key \notin DOMAIN d THEN JArr(<< >>)
    ELSE IF "items" \in DOMAIN d[key].o
         THEN JArr(IF d[key].o.items.a = << >> THEN << >>
                   ELSE << d[key].o.items.a[1] >>)
    ELSE JArr(<< >>)

\* d.get(key, {}).pop("items", [])
PopItems(d, key) ==
    IF key \notin DOMAIN d THEN JArr(<< >>)
    ELSE IF "items" \in DOMAIN d[key].o THEN d[key].o.items
    ELSE JArr(<< >>)

\* SimplifiedAlbum.__pre_deserialize__
SimplifiedAlbum_pre_deserialize(d) ==
    IF "album_type" \notin DOMAIN d THEN HookRaise("KeyError")
    ELSE IF d.album_type.j # "str" THEN HookRaise("AttributeError")
    ELSE HookReturn(With(d, "album_type", JStr(Lower(d.album_type.s))))

\* Album.__pre_deserialize__, which replaces the one of SimplifiedAlbum.
Album_pre_deserialize(d) ==
    IF "tracks" \in DOMAIN d /\ d.tracks.j # "obj"
    THEN HookRaise("AttributeError")
    ELSE HookReturn(With(d, "tracks", PopItems(d, "tracks")))

\* SavedAlbumResponse.__pre_deserialize__
SavedAlbumResponse_pre_deserialize(d) ==
    IF "items" \notin DOMAIN d THEN HookRaise("KeyError")
    ELSE IF d.items.j # "arr" THEN HookRaise("TypeError")
    ELSE HookReturn([items |-> JArr(NotNone(d.items.a))])

\* The hook that returns the payload as it is.
CurrentPlaying_pre_deserialize_kept(d) == HookReturn(d)

\* CurrentPlaying.__pre_deserialize__, PlaybackState's as well.
CurrentPlaying_pre_deserialize(d) ==
    IF /\ "item" \in DOMAIN d
       /\ d.item.j # "null"
       /\ "is_local" \in DOMAIN d.item.o
       /\ Truthy(d.item.o.is_local)
    THEN HookReturn(With(d, "item", JNull))
    ELSE HookReturn(d)

\* BasePlaylist.__pre_deserialize__, Playlist's as well.
BasePlaylist_pre_deserialize(d) ==
    IF "images" \notin DOMAIN d \/ d.images.j = "null"
    THEN HookReturn(With(d, "images", JArr(<< >>)))
    ELSE HookReturn(d)

\* PlaylistTracks.__pre_deserialize__
PlaylistTracks_pre_deserialize(d) ==
    IF "items" \notin DOMAIN d THEN HookRaise("KeyError")
    ELSE IF d.items.j # "arr" THEN HookRaise("TypeError")
    ELSE IF \E i \in 1..Len(d.items.a) : d.items.a[i].j # "obj"
    THEN HookRaise("TypeError")
    ELSE IF \E i \in 1..Len(d.items.a) :
                "is_local" \notin DOMAIN d.items.a[i].o
    THEN HookRaise("KeyError")
    ELSE HookReturn([items |-> JArr(NotLocal(d.items.a))])

\* PlaylistResponse.__pre_deserialize__
PlaylistResponse_pre_deserialize(d) ==
    IF "items" \notin DOMAIN d THEN HookRaise("KeyError")
    ELSE IF d.items.j # "arr" THEN HookRaise("TypeError")
    ELSE HookReturn(With(d, "items", JArr(NotNone(d.items.a))))

\* Show.__pre_deserialize__
Show_pre_deserialize(d) ==
    IF "episodes" \in DOMAIN d /\ d.episodes.j # "obj"
    THEN HookRaise("AttributeError")
    ELSE HookReturn(With(d, "episodes", PopItems(d, "episodes")))

\* Audiobook.__pre_deserialize__
Audiobook_pre_deserialize(d) ==
    IF "chapters" \in DOMAIN d /\ d.chapters.j # "obj"
    THEN HookRaise("AttributeError")
    ELSE HookReturn(With(d, "chapters", PopItems(d, "chapters")))

\* AudiobooksResponse.__pre_deserialize__
AudiobooksResponse_pre_deserialize(d) ==
    IF "audiobooks" \notin DOMAIN d THEN HookRaise("KeyError")
    ELSE IF d.audiobooks.j # "arr" THEN HookRaise("TypeError")
    ELSE HookReturn([audiobooks |-> JArr(NotNone(d.audiobooks.a))])

\* cls.__pre_deserialize__(d): the hook the class defines or inherits,
\* none for the classes that have none.
pre_deserialize(cls, d) ==
    CASE cls = "SimplifiedAlbum" -> SimplifiedAlbum_pre_deserialize(d)
      [] cls = "Album" -> Album_pre_deserialize(d)
      [] cls = "SavedAlbumResponse" -> SavedAlbumResponse_pre_deserialize(d)
      [] cls \in {"CurrentPlaying", "PlaybackState"}
           -> CurrentPlaying_pre_deserialize(d)
      [] cls \in {"BasePlaylist", "Playlist"}
           -> BasePlaylist_pre_deserialize(d)
      [] cls = "PlaylistTracks" -> PlaylistTracks_pre_deserialize(d)
      [] cls = "PlaylistResponse" -> PlaylistResponse_pre_deserialize(d)
      [] cls = "Show" -> Show_pre_deserialize(d)
      [] cls = "Audiobook" -> Audiobook_pre_deserialize(d)
      [] cls = "AudiobooksResponse" -> AudiobooksResponse_pre_deserialize(d)
      [] OTHER -> HookReturn(d)

\* The lookup that always finds Track.
VariantAlwaysTrack(type) == "Track"

\* The subclass of Item whose type attribute is the payload's "type".
Variant(type) ==
    CASE type = <<"track">> -> "Track"
      [] type = <<"episode">> -> "Episode"
      [] OTHER -> ""

\* What decoding gives: the value, or the error it ends with.
Success(v) == [ok |-> TRUE, v |-> v]
Failure(err) == [ok |-> FALSE, err |-> err]

\* The keys a class reads.
Keys(cls) == {Fields(cls)[i].key : i \in 1..Len(Fields(cls))}

RECURSIVE from_dict(_, _)
RECURSIVE Unpack(_, _)

\* cls.from_dict(v): the hook first, then every field in order; the first
\* field that is missing or does not decode ends the decoding.
from_dict(cls, v) ==
    IF v.j # "obj" THEN Failure("TypeError")
    ELSE
    LET h == pre_deserialize(cls, v.o)
    IN IF ~h.ok THEN Failure(h.err)
       ELSE
       LET fs == Fields(cls)
           r == [i \in 1..Len(fs) |->
                   IF fs[i].key \in DOMAIN h.d
                   THEN Unpack(fs[i].type, h.d[fs[i].key])
                   ELSE IF fs[i].required THEN Failure("MissingField")
                   ELSE Success(fs[i].default)]
           bad == {i \in 1..Len(fs) : ~r[i].ok}
       IN IF bad # {}
          THEN LET first == CHOOSE i \in bad : \A k \in bad : i <= k
               IN Failure(IF fs[first].key \notin DOMAIN h.d
                          THEN "MissingField" ELSE "InvalidFieldValue")
          ELSE Success([cls |-> cls,
                        f |-> [key \in Keys(cls) |->
                                 r[CHOOSE i \in 1..Len(fs) :
                                     fs[i].key = key].v]])

\* The decoding of one value as one field type.
Unpack(type, v) ==
    CASE type.t = "str" -> Success(v)
      [] type.t = "int" ->
           IF v.j = "int" THEN Success(v) ELSE Failure("ValueError")
      [] type.t = "bool" -> Success(JBool(Truthy(v)))
      [] type.t = "datetime" ->
           IF v.j = "str" THEN Success([j |-> "datetime", s |-> v.s])
           ELSE Failure("ValueError")
      [] type.t = "dict" ->
           IF v.j = "obj" THEN Success(v) ELSE Failure("ValueError")
      [] type.t = "enum" ->
           IF v.j = "str" /\ v.s \in type.values THEN Success(v)
           ELSE Failure("ValueError")
      [] type.t = "class" -> from_dict(type.cls, v)
      [] type.t = "list" ->
           IF v.j # "arr" THEN Failure("ValueError")
           ELSE LET rs == [i \in 1..Len(v.a) |-> Unpack(type.of, v.a[i])]
                IN IF \E i \in 1..Len(v.a) : ~rs[i].ok
                   THEN Failure("ValueError")
                   ELSE Success([list |-> [i \in 1..Len(v.a) |-> rs[i].v]])
      [] type.t = "opt" ->
           IF v.j = "null" THEN Success(JNull) ELSE Unpack(type.of, v)
      [] type.t = "item" ->
           IF /\ v.j = "obj"
              /\ "type" \in DOMAIN v.o
              /\ v.o.type.j = "str"
              /\ Variant(v.o.type.s) # ""
           THEN from_dict(Variant(v.o.type.s), v)
           ELSE Failure("ValueError")

\* ---------------------------------------------------------------- payloads
\* Longest list in a payload.
MaxItems == 3

\* The lists of at most n elements of S.
SeqsUpTo(S, n) == UNION { [1..k -> S] : k \in 0..n }

\* The payloads the classes are given, each with the class that decodes
\* it.
DecodeInputs ==
    LET
        Text(s) == JStr(<<s>>)

        ExternalUrls == JObj([spotify |-> Text("https://open.spotify.com/")])

        ArtistPayload ==
            JObj([id |-> Text("0TnOYISbd1XYRBk9myaseg"), name |-> Text("Pitbull"),
                  uri |-> Text("spotify:artist:0TnOYISbd1XYRBk9myaseg")])

        \* A simplified album with the given album_type.
        SimplifiedAlbumPayload(album_type) ==
            JObj([album_type |-> JStr(album_type), total_tracks |-> JInt(2),
                  id |-> Text("4aawyAB9vmqN3uQ7FjRGTy"), images |-> JArr(<< >>),
                  name |-> Text("Global Warming"),
                  release_date |-> Text("2012-11-16"),
                  release_date_precision |-> Text("day"),
                  uri |-> Text("spotify:album:4aawyAB9vmqN3uQ7FjRGTy"),
                  artists |-> JArr(<<ArtistPayload>>)])

        \* A simplified track with the given name.
        SimplifiedTrackPayload(name) ==
            JObj([id |-> Text("6OmhkSOpvYBokMKQxpIGx2"),
                  artists |-> JArr(<<ArtistPayload>>), disc_number |-> JInt(1),
                  duration_ms |-> JInt(85400), explicit |-> JBool(TRUE),
                  external_urls |-> ExternalUrls, href |-> Text("https://api/"),
                  name |-> Text(name), is_local |-> JBool(FALSE),
                  track_number |-> JInt(1),
                  uri |-> Text("spotify:track:6OmhkSOpvYBokMKQxpIGx2")])

        \* A track, as a playable item, with the given "type" and is_local.
        TrackPayload(type, is_local) ==
            JObj(With(With(With(SimplifiedTrackPayload("Feel This Moment").o,
                                "type", Text(type)),
                           "is_local", JBool(is_local)),
                      "album", SimplifiedAlbumPayload(<<"a", "l", "b", "u", "m">>)))

        \* A local file where a track is expected: it has no catalog fields.
        LocalFilePayload ==
            JObj([type |-> Text("track"), name |-> Text("my.mp3"),
                  is_local |-> JBool(TRUE), uri |-> Text("spotify:local:::my.mp3:1")])

        SimplifiedShowPayload ==
            JObj([id |-> Text("38bS44xjbVVZ3No3ByF1dJ"), name |-> Text("Vetenskapsradion"),
                  uri |-> Text("spotify:show:38bS44xjbVVZ3No3ByF1dJ"),
                  images |-> JArr(<< >>), external_urls |-> ExternalUrls,
                  href |-> Text("https://api/"), publisher |-> Text("Sveriges Radio"),
                  description |-> Text("Vetenskap"), total_episodes |-> JNull])

        \* A simplified episode with the given name.
        SimplifiedEpisodePayload(name) ==
            JObj([id |-> Text("5Xt5DXGzch68nYYamXrNxZ"), name |-> Text(name),
                  uri |-> Text("spotify:episode:5Xt5DXGzch68nYYamXrNxZ"),
                  images |-> JArr(<< >>), external_urls |-> ExternalUrls,
                  href |-> Text("https://api/"), duration_ms |-> JInt(1686230),
                  explicit |-> JBool(FALSE), release_date |-> Text("1981-12-15"),
                  release_date_precision |-> Text("day"),
                  description |-> Text("A sample")])

        \* An episode, as a playable item, with the given "type".
        EpisodePayload(type) ==
            JObj(With(With(SimplifiedEpisodePayload("Starting Your Own Podcast").o,
                           "type", Text(type)),
                      "show", SimplifiedShowPayload))

        \* A chapter with the given name.
        ChapterPayload(name) ==
            JObj([id |-> Text("0D5wENdkdwbqlrHoaJ9g29"), chapter_number |-> JInt(1),
                  duration_ms |-> JInt(1000), images |-> JArr(<< >>),
                  languages |-> JArr(<<Text("en")>>), name |-> Text(name),
                  explicit |-> JBool(FALSE), type |-> Text("chapter"),
                  uri |-> Text("spotify:chapter:0D5wENdkdwbqlrHoaJ9g29"),
                  external_urls |-> ExternalUrls])

        \* A full album with the given album_type, name and "tracks" value.
        AlbumPayload(album_type, name, tracks) ==
            JObj(With(With(SimplifiedAlbumPayload(album_type).o,
                           "name", Text(name)),
                      "tracks", tracks))

        \* A show with the given name and "episodes" value.
        ShowPayload(name, episodes) ==
            JObj(With(With(SimplifiedShowPayload.o, "name", Text(name)),
                      "episodes", episodes))

        \* An audiobook with the given name and "chapters" value.
        AudiobookPayload(name, chapters) ==
            JObj([authors |-> JArr(<<JObj([name |-> Text("Author")])>>),
                  chapters |-> chapters, description |-> Text("A book"),
                  edition |-> Text("Unabridged"), external_urls |-> ExternalUrls,
                  explicit |-> JBool(FALSE), html_description |-> Text("A book"),
                  id |-> Text("7iHfbu1YPACw6oZPAFJtqe"), images |-> JArr(<< >>),
                  languages |-> JArr(<<Text("en")>>), name |-> Text(name),
                  narrators |-> JArr(<<JObj([name |-> Text("Narrator")])>>),
                  publisher |-> Text("Publisher"), total_chapters |-> JInt(1),
                  type |-> Text("audiobook"),
                  uri |-> Text("spotify:show:7iHfbu1YPACw6oZPAFJtqe")])

        \* The paging envelope around a list.
        Paged(items) == JObj([items |-> JArr(items), total |-> JInt(Len(items))])

        \* An object without one of its keys.
        Without(obj, key) ==
            JObj([k \in DOMAIN obj.o \ {key} |-> obj.o[k]])

        \* An entry of a playlist's item list.
        PlaylistEntry(is_local, track) ==
            JObj([added_at |-> Text("2023-07-05T12:00:00Z"),
                  is_local |-> JBool(is_local), track |-> track])

        \* The entries playlists are made of: a track, an episode, a local track
        \* that would decode, a local file that would not, and an item of an
        \* unknown type.
        PlaylistEntries ==
            { PlaylistEntry(FALSE, TrackPayload("track", FALSE)),
              PlaylistEntry(FALSE, EpisodePayload("episode")),
              PlaylistEntry(TRUE, TrackPayload("track", TRUE)),
              PlaylistEntry(TRUE, LocalFilePayload),
              PlaylistEntry(FALSE, TrackPayload("ad", FALSE)) }

        \* A playlist without its tracks, with the given name and "images" value.
        BasePlaylistPayload(name, images) ==
            JObj([collaborative |-> JBool(FALSE), description |-> JNull,
                  external_urls |-> ExternalUrls,
                  id |-> Text("37i9dQZF1DXcBWIGoYBM5M"), images |-> images,
                  name |-> Text(name),
                  owner |-> JObj([display_name |-> Text("Spotify"),
                                  external_urls |-> ExternalUrls,
                                  href |-> Text("https://api/"),
                                  id |-> Text("spotify"), type |-> Text("user"),
                                  uri |-> Text("spotify:user:spotify")]),
                  public |-> JNull, type |-> Text("playlist"),
                  uri |-> Text("spotify:playlist:37i9dQZF1DXcBWIGoYBM5M")])

        PlaylistTracksInputs ==
            { [model |-> "PlaylistTracks",
               payload |-> JObj([href |-> Text("https://api/"), items |-> JArr(s)])] :
                s \in SeqsUpTo(PlaylistEntries, MaxItems) }

        PlaylistInputs ==
            { [model |-> "Playlist",
               payload |-> JObj(With(BasePlaylistPayload("Today's Top Hits",
                                                         JArr(<< >>)).o,
                                     "tracks", Paged(s)))] :
                s \in SeqsUpTo(PlaylistEntries, 1) }

        \* A saved album with the given name.
        SavedAlbumPayload(name) ==
            JObj([added_at |-> Text("2023-07-05T12:00:00Z"),
                  album |-> AlbumPayload(<<"a", "l", "b", "u", "m">>, name,
                                         Paged(<<SimplifiedTrackPayload("Intro")>>))])

        \* The entries top-level collections are made of: null, two that decode
        \* and one that lacks a required field.
        SavedAlbumEntries ==
            { JNull, SavedAlbumPayload("Global Warming"), SavedAlbumPayload("Dale"),
              Without(SavedAlbumPayload("Dale"), "added_at") }
        BasePlaylistEntries ==
            { JNull, BasePlaylistPayload("Today's Top Hits", JArr(<< >>)),
              BasePlaylistPayload("Chill Hits", JNull),
              Without(BasePlaylistPayload("Chill Hits", JNull), "owner") }
        AudiobookEntries ==
            { JNull, AudiobookPayload("Dune", Paged(<<ChapterPayload("One")>>)),
              AudiobookPayload("Emma", Paged(<< >>)),
              Without(AudiobookPayload("Emma", Paged(<< >>)), "edition") }

        SavedAlbumResponseInputs ==
            { [model |-> "SavedAlbumResponse",
               payload |-> JObj([href |-> Text("https://api/"), items |-> JArr(s)])] :
                s \in SeqsUpTo(SavedAlbumEntries, MaxItems) }
        PlaylistResponseInputs ==
            { [model |-> "PlaylistResponse",
               payload |-> JObj([href |-> Text("https://api/"), items |-> JArr(s),
                                 limit |-> JInt(48), next |-> JNull,
                                 offset |-> JInt(0), previous |-> JNull,
                                 total |-> JInt(Len(s))])] :
                s \in SeqsUpTo(BasePlaylistEntries, MaxItems) }
        AudiobooksResponseInputs ==
            { [model |-> "AudiobooksResponse",
               payload |-> JObj([audiobooks |-> JArr(s)])] :
                s \in SeqsUpTo(AudiobookEntries, MaxItems) }

        ContextPayload ==
            JObj([external_urls |-> ExternalUrls, href |-> Text("https://api/"),
                  type |-> Text("album"),
                  uri |-> Text("spotify:album:4aawyAB9vmqN3uQ7FjRGTy")])

        DevicePayload ==
            JObj([id |-> JNull, is_active |-> JBool(TRUE),
                  is_private_session |-> JBool(FALSE),
                  is_restricted |-> JBool(FALSE), name |-> Text("Kitchen"),
                  type |-> Text("Speaker"), volume_percent |-> JInt(40)])

        \* What "item" holds in a currently-playing payload: nothing, a track, an
        \* episode, a local track that would decode, a local file that would not,
        \* a local item of an unknown type, and an item of an unknown type.
        PlayingItems ==
            { JNull, TrackPayload("track", FALSE), EpisodePayload("episode"),
              TrackPayload("track", TRUE), LocalFilePayload,
              TrackPayload("ad", TRUE), TrackPayload("ad", FALSE) }

        CurrentPlayingPayload(item, context, progress_ms, is_playing) ==
            JObj([context |-> context, progress_ms |-> progress_ms,
                  is_playing |-> JBool(is_playing), item |-> item,
                  currently_playing_type |-> Text("track")])

        CurrentPlayingInputs ==
            { [model |-> "CurrentPlaying",
               payload |-> CurrentPlayingPayload(i, c, p, b)] :
                i \in PlayingItems, c \in {JNull, ContextPayload},
                p \in {JNull, JInt(7000)}, b \in BOOLEAN }

        PlaybackStateInputs ==
            { [model |-> "PlaybackState",
               payload |->
                  JObj(With(With(With(CurrentPlayingPayload(i, c, JInt(7000), TRUE).o,
                                      "device", DevicePayload),
                                 "shuffle_state", JBool(b)),
                            "repeat_state", Text("off")))] :
                i \in PlayingItems, c \in {JNull, ContextPayload}, b \in BOOLEAN }

        \* Spellings of album types, and of what is none.
        AlbumTypeTokens ==
            { <<"a", "l", "b", "u", "m">>, <<"A", "l", "b", "u", "m">>,
              <<"A", "L", "B", "U", "M">>, <<"e", "p">>, <<"E", "P">>,
              <<"s", "i", "n", "g", "l", "e">>, <<"S", "I", "N", "G", "L", "E">>,
              <<"c", "o", "m", "p", "i", "l", "a", "t", "i", "o", "n">>,
              <<"C", "O", "M", "P", "I", "L", "A", "T", "I", "O", "N">>,
              <<"l", "i", "v", "e">>, <<"L", "I", "V", "E">>, << >> }

        SimplifiedAlbumInputs ==
            { [model |-> "SimplifiedAlbum", payload |-> SimplifiedAlbumPayload(t)] :
                t \in AlbumTypeTokens }

        \* The elements of the enveloped lists: two that decode and one that
        \* lacks a required field.
        TrackElements ==
            { SimplifiedTrackPayload("Intro"), SimplifiedTrackPayload("Outro"),
              Without(SimplifiedTrackPayload("Outro"), "name") }
        EpisodeElements ==
            { SimplifiedEpisodePayload("One"), SimplifiedEpisodePayload("Two"),
              Without(SimplifiedEpisodePayload("Two"), "name") }
        ChapterElements ==
            { ChapterPayload("One"), ChapterPayload("Two"),
              Without(ChapterPayload("Two"), "name") }

        AlbumInputs ==
            { [model |-> "Album",
               payload |-> AlbumPayload(t, n, Paged(s))] :
                t \in {<<"a", "l", "b", "u", "m">>}, n \in {"Global Warming", "Dale"},
                s \in SeqsUpTo(TrackElements, MaxItems) }
            \cup { [model |-> "Album",
                    payload |-> AlbumPayload(t, "Global Warming",
                                             Paged(<<SimplifiedTrackPayload("Intro")>>))] :
                     t \in AlbumTypeTokens }
        ShowInputs ==
            { [model |-> "Show", payload |-> ShowPayload(n, Paged(s))] :
                n \in {"Vetenskapsradion", "P3 Dokumentar"},
                s \in SeqsUpTo(EpisodeElements, MaxItems) }
        AudiobookInputs ==
            { [model |-> "Audiobook", payload |-> AudiobookPayload(n, Paged(s))] :
                n \in {"Dune", "Emma"}, s \in SeqsUpTo(ChapterElements, MaxItems) }

        PlaylistTrackInputs ==
            { [model |-> "PlaylistTrack", payload |-> JObj([track |-> i])] :
                i \in { TrackPayload("track", FALSE), EpisodePayload("episode"),
                        TrackPayload("ad", FALSE), TrackPayload("Track", FALSE),
                        EpisodePayload("track"), TrackPayload("episode", FALSE),
                        Without(TrackPayload("track", FALSE), "type") } }

        \* Payloads that decode, each taken once without each of its keys.
        Complete ==
            { [model |-> "SimplifiedAlbum",
               payload |-> SimplifiedAlbumPayload(<<"a", "l", "b", "u", "m">>)],
              [model |-> "Album",
               payload |-> AlbumPayload(<<"a", "l", "b", "u", "m">>, "Global Warming",
                                        Paged(<<SimplifiedTrackPayload("Intro")>>))],
              [model |-> "Show",
               payload |-> ShowPayload("Vetenskapsradion",
                                       Paged(<<SimplifiedEpisodePayload("One")>>))],
              [model |-> "Audiobook",
               payload |-> AudiobookPayload("Dune", Paged(<<ChapterPayload("One")>>))],
              [model |-> "BasePlaylist",
               payload |-> BasePlaylistPayload("Today's Top Hits", JArr(<< >>))] }
        IncompleteInputs ==
            { [model |-> c.model, payload |-> Without(c.payload, key)] :
                c \in Complete, key \in {"album_type", "chapters", "edition",
                                          "episodes", "images", "name", "owner",
                                          "publisher", "tracks", "uri"} }
            \cup { c \in Complete : c.model = "BasePlaylist" }
    IN
    IncompleteInputs \cup
    PlaylistTracksInputs \cup PlaylistInputs \cup SavedAlbumResponseInputs
    \cup PlaylistResponseInputs \cup AudiobooksResponseInputs
    \cup CurrentPlayingInputs \cup PlaybackStateInputs
    \cup SimplifiedAlbumInputs \cup AlbumInputs \cup ShowInputs
    \cup AudiobookInputs \cup PlaylistTrackInputs

\* ---------------------------------------------------------------- decoding
\* One class decodes one payload.
DecodeInit ==
    /\ ClientIdle
    /\ NoCalls
    /\ NoIdentifier
    /\ \E in \in DecodeInputs :
          /\ model = in.model
          /\ payload = in.payload
    /\ decoded = << >>

\* cls.from_dict(payload), as from_json calls it on the parsed text.
Decode ==
    /\ model # ""
    /\ decoded = << >>
    /\ decoded' = <<from_dict(model, payload)>>
    /\ UNCHANGED <<model, payload, client_vars, task_vars, call_vars,
                   ident_vars>>

DecodeNext == Decode

DecodeSpec == DecodeInit /\ [][DecodeNext]_vars

\* ------------------------------------------------------- decoding claims
\* C15: the items of a decoded playlist are the decoded entries whose
\* is_local is not true, in their order; the entries whose is_local is true
\* are left out before any entry is decoded, so what they hold cannot make
\* the decoding fail.
C15_LocalEntriesDropped ==
    (model \in {"PlaylistTracks", "Playlist"} /\ decoded # << >>)
        => LET items == IF model = "Playlist"
                        THEN payload.o.tracks.o.items.a
                        ELSE payload.o.items.a
               kept == SelectSeq(items,
                                 LAMBDA e : e.o.is_local # JBool(TRUE))
               each == [i \in 1..Len(kept) |->
                          from_dict("PlaylistTrack", kept[i])]
               out == IF ~decoded[1].ok THEN decoded[1]
                      ELSE IF model = "Playlist"
                      THEN Success(decoded[1].v.f.tracks.f.items)
                      ELSE Success(decoded[1].v.f.items)
           IN IF \A i \in 1..Len(kept) : each[i].ok
              THEN /\ out.ok
                   /\ out.v = [list |-> [i \in 1..Len(kept) |-> each[i].v]]
              ELSE ~out.ok

C15_Witness ==
    /\ model = "PlaylistTracks"
    /\ decoded # << >>
    /\ Len(payload.o.items.a) = 3
    /\ payload.o.items.a[1].o.is_local = JBool(FALSE)
    /\ payload.o.items.a[2].o.is_local = JBool(TRUE)
    /\ "album" \notin DOMAIN payload.o.items.a[2].o.track.o
    /\ payload.o.items.a[3].o.is_local = JBool(FALSE)
    /\ decoded[1].ok
    /\ Len(decoded[1].v.f.items.list) = 2
    /\ decoded[1].v.f.items.list[1].f.track.cls = "Track"
    /\ decoded[1].v.f.items.list[2].f.track.cls = "Episode"

\* C16: the list of a decoded top-level collection (saved albums,
\* playlists, audiobooks) holds the decoded entries that are not null, in
\* their order; a null entry is left out and never decoded.
C16_NullEntriesDropped ==
    (/\ model \in {"SavedAlbumResponse", "PlaylistResponse",
                   "AudiobooksResponse"}
     /\ decoded # << >>)
        => LET key == IF model = "AudiobooksResponse" THEN "audiobooks"
                      ELSE "items"
               element == CASE model = "SavedAlbumResponse" -> "SavedAlbum"
                            [] model = "PlaylistResponse" -> "BasePlaylist"
                            [] OTHER -> "Audiobook"
               kept == SelectSeq(payload.o[key].a, LAMBDA e : e.j # "null")
               each == [i \in 1..Len(kept) |-> from_dict(element, kept[i])]
           IN IF \A i \in 1..Len(kept) : each[i].ok
              THEN /\ decoded[1].ok
                   /\ decoded[1].v.f[key]
                        = [list |-> [i \in 1..Len(kept) |-> each[i].v]]
              ELSE ~decoded[1].ok

C16_Witness ==
    /\ model = "SavedAlbumResponse"
    /\ decoded # << >>
    /\ Len(payload.o.items.a) = 3
    /\ payload.o.items.a[1].j = "null"
    /\ payload.o.items.a[2].j = "obj"
    /\ payload.o.items.a[3].j = "null"
    /\ decoded[1].ok
    /\ Len(decoded[1].v.f.items.list) = 1
    /\ decoded[1].v.f.items.list[1].cls = "SavedAlbum"

\* C17: a currently-playing or playback payload whose item is a local file
\* (an object with a true is_local) decodes, whatever else the item holds
\* or lacks, to a result whose item is None; the other fields of the
\* payload are decoded as they are.
C17_LocalItemIsNone ==
    (/\ model \in {"CurrentPlaying", "PlaybackState"}
     /\ decoded # << >>
     /\ payload.o.item.j = "obj"
     /\ "is_local" \in DOMAIN payload.o.item.o
     /\ payload.o.item.o.is_local = JBool(TRUE))
        => /\ decoded[1].ok
           /\ decoded[1].v.cls = model
           /\ decoded[1].v.f.item = JNull
           /\ decoded[1].v.f.is_playing = payload.o.is_playing
           /\ decoded[1].v.f.progress_ms = payload.o.progress_ms
           /\ decoded[1].v.f.currently_playing_type
                = payload.o.currently_playing_type
           /\ decoded[1].v.f.context
                = IF payload.o.context.j = "null" THEN JNull
                  ELSE from_dict("Context", payload.o.context).v
           /\ model = "PlaybackState"
                => /\ decoded[1].v.f.shuffle_state = payload.o.shuffle_state
                   /\ decoded[1].v.f.repeat_state = payload.o.repeat_state
                   /\ decoded[1].v.f.device
                        = from_dict("Device", payload.o.device).v

C17_Witness ==
    /\ model = "PlaybackState"
    /\ decoded # << >>
    /\ payload.o.item.j = "obj"
    /\ payload.o.item.o.is_local = JBool(TRUE)
    /\ "album" \notin DOMAIN payload.o.item.o
    /\ payload.o.context.j = "obj"
    /\ decoded[1].ok
    /\ decoded[1].v.f.item = JNull
    /\ decoded[1].v.f.context.cls = "Context"

\* C18 as stated: for SimplifiedAlbum and for Album, an album_type in any
\* letter case decodes to the AlbumType of its lower-case spelling, and a
\* token outside album, ep, single and compilation fails the decoding
\* (the rest of the payload being one that decodes).
C18_Claim ==
    (/\ model \in {"SimplifiedAlbum", "Album"}
     /\ decoded # << >>
     /\ "album_type" \in DOMAIN payload.o
     /\ model = "Album" => "tracks" \in DOMAIN payload.o
     /\ model = "Album"
           => \A i \in 1..Len(payload.o.tracks.o.items.a) :
                 from_dict("SimplifiedTrack", payload.o.tracks.o.items.a[i]).ok)
        => LET lowered == Lower(payload.o.album_type.s)
           IN IF lowered \in AlbumType
              THEN /\ decoded[1].ok
                   /\ decoded[1].v.f.album_type = JStr(lowered)
              ELSE ~decoded[1].ok

\* C19: a playable item that reaches the decoder (the track of a playlist
\* entry, the item of a currently-playing or playback payload that is not
\* left out as local) is decoded as the class its "type" names: "track" as
\* Track, "episode" as Episode; with any other type, or none, the whole
\* decoding fails.
C19_VariantByType ==
    (/\ model \in {"PlaylistTrack", "CurrentPlaying", "PlaybackState"}
     /\ decoded # << >>
     /\ model # "PlaylistTrack"
           => /\ payload.o.item.j = "obj"
              /\ "is_local" \in DOMAIN payload.o.item.o
                    => ~Truthy(payload.o.item.o.is_local))
        => LET key == IF model = "PlaylistTrack" THEN "track" ELSE "item"
               it == payload.o[key]
               type == IF "type" \in DOMAIN it.o THEN it.o.type.s ELSE << >>
           IN CASE type = <<"track">> ->
                     /\ decoded[1].ok <=> from_dict("Track", it).ok
                     /\ decoded[1].ok
                          => decoded[1].v.f[key] = from_dict("Track", it).v
                [] type = <<"episode">> ->
                     /\ decoded[1].ok <=> from_dict("Episode", it).ok
                     /\ decoded[1].ok
                          => decoded[1].v.f[key] = from_dict("Episode", it).v
                [] OTHER -> ~decoded[1].ok

C19_Witness ==
    /\ model = "CurrentPlaying"
    /\ decoded # << >>
    /\ payload.o.item.j = "obj"
    /\ payload.o.item.o.type = JStr(<<"episode">>)
    /\ decoded[1].ok
    /\ decoded[1].v.f.item.cls = "Episode"
    /\ decoded[1].v.f.item.f.show.cls = "SimplifiedShow"

\* C20: for Album.tracks, Show.episodes and Audiobook.chapters the hook
\* puts the inner "items" array in the place of its envelope and leaves every
\* other key of the payload as it was; the decoded list is then the decoding
\* of each element of that array, in the same order, for zero, one and many
\* elements.
C20_ItemsUnwrapped ==
    (/\ model \in {"Album", "Show", "Audiobook"}
     /\ decoded # << >>
     /\ {"tracks", "episodes", "chapters"} \cap DOMAIN payload.o # {})
        => LET key == CASE model = "Album" -> "tracks"
                        [] model = "Show" -> "episodes"
                        [] model = "Audiobook" -> "chapters"
               of == CASE model = "Album" -> "SimplifiedTrack"
                       [] model = "Show" -> "SimplifiedEpisode"
                       [] model = "Audiobook" -> "Chapter"
               items == payload.o[key].o.items
               hooked == pre_deserialize(model, payload.o)
               each == [i \in 1..Len(items.a) |-> from_dict(of, items.a[i])]
           IN /\ hooked.ok
              /\ DOMAIN hooked.d = DOMAIN payload.o
              /\ hooked.d[key] = items
              /\ \A k \in DOMAIN payload.o \ {key} : hooked.d[k] = payload.o[k]
              /\ decoded[1].ok
                   => /\ decoded[1].v.f[key]
                           = [list |-> [i \in 1..Len(items.a) |-> each[i].v]]
                      /\ decoded[1].v.f.name = payload.o.name
              /\ (\E i \in 1..Len(items.a) : ~each[i].ok) => ~decoded[1].ok

C20_Witness ==
    /\ model = "Show"
    /\ "episodes" \in DOMAIN payload.o
    /\ decoded # << >>
    /\ decoded[1].ok
    /\ Len(payload.o.episodes.o.items.a) = 3
    /\ Len(decoded[1].v.f.episodes.list) = 3
    /\ payload.o.episodes.o.items.a[1] # payload.o.episodes.o.items.a[2]

\* C21 as stated: a payload that lacks a key of a field declared without a
\* default and not Optional never decodes; the fields the hooks rewrite
\* (Album.tracks, Show.episodes, Audiobook.chapters, BasePlaylist.images)
\* are no exception.
C21_Claim ==
    decoded # << >>
        => \A i \in 1..Len(Fields(model)) :
              (/\ Fields(model)[i].required
               /\ Fields(model)[i].type.t # "opt"
               /\ Fields(model)[i].key \notin DOMAIN payload.o)
                  => ~decoded[1].ok

\* C22 as stated: a decoding that fails gives no object, and what it raises
\* is of one kind, an error of the library (the SpotifyError hierarchy),
\* whether a key is missing, a value is of the wrong type, an enum token or
\* a discriminator is unknown, or a hook fails.
C22_Claim ==
    (decoded # << >> /\ ~decoded[1].ok)
        => /\ "v" \notin DOMAIN decoded[1]
           /\ decoded[1].err \in SpotifyErrors

\* ----------------------------------------------------------- start_playback
\* The keyword arguments start_playback is called with: each one left out
\* (None, and 0 for position), empty or zero, or set.
PlaybackArguments ==
    [device_id : {JNull, JStr(<< >>), JStr(<<"123qwe">>)},
     context_uri : {JNull, JStr(<< >>),
                    JStr(<<"spotify:artist:6cmp7ut7okJAgJOSaMAVf3">>)},
     uris : {JNull, JArr(<< >>),
             JArr(<<JStr(<<"spotify:track:1FyXbzOlq3dkxaB6iRsETv">>)>>),
             JArr(<<JStr(<<"spotify:track:1FyXbzOlq3dkxaB6iRsETv">>),
                    JStr(<<"spotify:track:4e9hUiLsN4mx61ARosFi7p">>)>>)},
     position_offset : {JNull, JInt(0), JInt(1), JInt(5)},
     uri_offset : {JNull, JStr(<< >>),
                   JStr(<<"spotify:track:4e9hUiLsN4mx61ARosFi7p">>)},
     position : {JNull, JInt(0), JInt(5000)}]

\* start_playback up to its await of _put: the body and the parameters.
start_playback(a) ==
    LET p0 == [position_ms |-> a.position]
        p1 == IF Truthy(a.context_uri)
              THEN With(p0, "context_uri", a.context_uri) ELSE p0
        p2 == IF Truthy(a.uris) THEN With(p1, "uris", a.uris) ELSE p1
        p3 == IF Truthy(a.position_offset)
              THEN With(p2, "offset", JObj([position |-> a.position_offset]))
              ELSE p2
        p4 == IF Truthy(a.uri_offset)
              THEN With(p3, "offset", JObj([uri |-> a.uri_offset]))
              ELSE p3
        query == IF Truthy(a.device_id) THEN [device_id |-> a.device_id]
                 ELSE [k \in {} |-> JNull]
    IN [verb |-> "PUT", path |-> <<"v1/me/player/play">>, data |-> p4,
        params |-> query]

\* start_playback is called once on an idle client.
PlaybackInit ==
    /\ ClientIdle
    /\ NoIdentifier
    /\ NoDecoding
    /\ method = "start_playback"
    /\ argument \in {<<a>> : a \in PlaybackArguments}
    /\ sent = << >>
    /\ outcome = Pending

\* The method up to its await of _put.
CallPlayback ==
    /\ method = "start_playback"
    /\ sent = << >>
    /\ sent' = <<start_playback(argument[1])>>
    /\ UNCHANGED <<method, argument, outcome, client_vars, task_vars,
                   ident_vars, decode_vars>>

\* _put returns and the method returns None.
AnswerPlayback ==
    /\ method = "start_playback"
    /\ sent # << >>
    /\ outcome = Pending
    /\ outcome' = Return("None")
    /\ UNCHANGED <<method, argument, sent, client_vars, task_vars,
                   ident_vars, decode_vars>>

PlaybackNext == CallPlayback \/ AnswerPlayback

PlaybackSpec == PlaybackInit /\ [][PlaybackNext]_vars

\* C26 as stated: the body always holds position_ms; it holds context_uri
\* and uris when they are given; for every position_offset p that is given,
\* 0 included, it holds offset = {"position": p} (unless uri_offset is given
\* too); with uri_offset given it holds offset = {"uri": uri_offset};
\* device_id goes to the query parameters and never to the body.
C26_Claim ==
    (method = "start_playback" /\ sent # << >>)
        => LET a == argument[1]
               body == sent[1].data
               query == sent[1].params
               absent == {JNull, JStr(<< >>), JArr(<< >>)}
           IN /\ "position_ms" \in DOMAIN body
              /\ body.position_ms = a.position
              /\ a.context_uri \notin absent
                    => /\ "context_uri" \in DOMAIN body
                       /\ body.context_uri = a.context_uri
              /\ a.uris \notin absent
                    => "uris" \in DOMAIN body /\ body.uris = a.uris
              /\ (a.position_offset # JNull /\ a.uri_offset \in absent)
                    => /\ "offset" \in DOMAIN body
                       /\ body.offset = JObj([position |-> a.position_offset])
              /\ a.uri_offset \notin absent
                    => /\ "offset" \in DOMAIN body
                       /\ body.offset = JObj([uri |-> a.uri_offset])
              /\ "device_id" \notin DOMAIN body
              /\ a.device_id \notin absent
                    => /\ "device_id" \in DOMAIN query
                       /\ query.device_id = a.device_id

====
